---- MODULE Spec2Model ----
(***************************************************************************)
(* A model of bbpe_tokenizer.c: the loader (bbpe_init), the encoder        *)
(* (bbpe_encode: special-token splitting, pre-tokenizer chain, per-chunk   *)
(* byte expansion and greedy BPE merging) and the decoder (bbpe_decode).   *)
(*                                                                         *)
(* Strings are sequences of byte values (1..255, the C terminator is not   *)
(* part of the sequence).  Arrays indexed by a token id are functions on   *)
(* 0..n-1.  Hash tables are sequences in insertion order, which is the     *)
(* order HASH_ITER walks them in.                                          *)
(***************************************************************************)
EXTENDS Integers, Sequences, FiniteSets, TLC

(***************************************************************************)
(* Status codes (bbpe_tokenizer.h) and sizes (bbpe_tokenizer.c).           *)
(***************************************************************************)
BBPE_OK == 0
BBPE_ERR_MEMORY == -1
BBPE_ERR_JSON_PARSE == -2
BBPE_ERR_VOCAB_MISSING == -3
BBPE_ERR_REGEX_COMPILE == -4
BBPE_ERR_TOKEN_NOT_FOUND == -5
BBPE_ERR_INVALID_INPUT == -6
BBPE_ERR_UNSUPPORTED_TYPE == -7

STRING_TEMP_SIZE == 255
UNICODE_MAP_SIZE == 512
INT32_MAX == 2147483647

(***************************************************************************)
(* Bounds of the model.                                                    *)
(***************************************************************************)
\* Longest text of the exhaustively enumerated inputs of bbpe_encode.
MaxTextLen == 3

(***************************************************************************)
(* Sequence helpers.                                                       *)
(***************************************************************************)
\* s[from..to) with 0-based offsets, as memcpy(buf, s + from, to - from).
Slice(s, from, to) == [k \in 1..(to - from) |-> s[from + k]]

\* s[i] for a 0-based index i; the byte after the last one is the terminator.
CharAt(s, i) == IF i + 1 <= Len(s) THEN s[i + 1] ELSE 0

RECURSIVE Flatten(_)
Flatten(ss) ==
    IF Len(ss) = 0 THEN <<>>
    ELSE IF Len(ss) = 1 THEN ss[1]
    ELSE LET half == Len(ss) \div 2
         IN Flatten(SubSeq(ss, 1, half)) \o Flatten(SubSeq(ss, half + 1, Len(ss)))

RECURSIVE SeqsUpTo(_, _)
SeqsUpTo(S, n) ==
    IF n = 0 THEN {<<>>}
    ELSE LET shorter == SeqsUpTo(S, n - 1)
         IN shorter \cup {Append(s, x) : s \in shorter, x \in S}

(***************************************************************************)
(* UTF-8 (utf8_decode, utf8_encode).                                       *)
(***************************************************************************)
\* (c & 0xC0) == 0x80
IsCont(c) == c \div 64 = 2

\* utf8_decode(s + p, &cp): [len, cp], len = -1 on a malformed sequence.
utf8_decode(s, p) ==
    LET c  == CharAt(s, p)
        c1 == CharAt(s, p + 1)
        c2 == CharAt(s, p + 2)
        c3 == CharAt(s, p + 3)
    IN IF c < 128 THEN [len |-> 1, cp |-> c]
       ELSE IF c \div 32 = 6
       THEN IF ~IsCont(c1) THEN [len |-> -1, cp |-> 0]
            ELSE [len |-> 2, cp |-> (c % 32) * 64 + (c1 % 64)]
       ELSE IF c \div 16 = 14
       THEN IF ~IsCont(c1) \/ ~IsCont(c2) THEN [len |-> -1, cp |-> 0]
            ELSE [len |-> 3, cp |-> (c % 16) * 4096 + (c1 % 64) * 64 + (c2 % 64)]
       ELSE IF c \div 8 = 30
       THEN IF ~IsCont(c1) \/ ~IsCont(c2) \/ ~IsCont(c3) THEN [len |-> -1, cp |-> 0]
            ELSE [len |-> 4, cp |-> (c % 8) * 262144 + (c1 % 64) * 4096
                                      + (c2 % 64) * 64 + (c3 % 64)]
       ELSE [len |-> -1, cp |-> 0]

\* utf8_encode(cp, out): the bytes written.
utf8_encode(cp) ==
    IF cp < 128 THEN <<cp>>
    ELSE IF cp < 2048 THEN <<192 + (cp \div 64), 128 + (cp % 64)>>
    ELSE IF cp < 65536
    THEN <<224 + (cp \div 4096), 128 + ((cp \div 64) % 64), 128 + (cp % 64)>>
    ELSE <<240 + (cp \div 262144), 128 + ((cp \div 4096) % 64),
           128 + ((cp \div 64) % 64), 128 + (cp % 64)>>

\* Whether every utf8_decode of the walk over the string s from p succeeds.
RECURSIVE Utf8Walks(_, _)
Utf8Walks(s, p) ==
    IF p >= Len(s) THEN TRUE
    ELSE utf8_decode(s, p).len >= 0 /\ Utf8Walks(s, p + utf8_decode(s, p).len)

(***************************************************************************)
(* The byte alphabet (init_byte_mappings, precompute_byte_strings).        *)
(***************************************************************************)
\* IsSelfMapped with the soft hyphen (173) taken for printable.
IsSelfMappedWide(b) ==
    (b >= 33 /\ b <= 126) \/ (b >= 161 /\ b <= 255)

\* The bytes init_byte_mappings maps to themselves.
IsSelfMapped(b) ==
    (b >= 33 /\ b <= 126) \/ (b >= 161 /\ b <= 172) \/ (b >= 174 /\ b <= 255)

\* tok->byte_to_unicode: n counts the bytes below b that are not self-mapped.
byte_to_unicode ==
    [b \in 0..255 |->
        IF IsSelfMapped(b) THEN b
        ELSE 256 + Cardinality({c \in 0..(b - 1) : ~IsSelfMapped(c)})]

\* tok->unicode_to_byte: zeroed, then written for b = 0..255 in order.
unicode_to_byte ==
    [cp \in 0..(UNICODE_MAP_SIZE - 1) |->
        LET writers == {b \in 0..255 : byte_to_unicode[b] = cp}
        IN IF writers = {} THEN 0
           ELSE CHOOSE b \in writers : \A c \in writers : c <= b]

\* tok->byte_vocab_strs
byte_vocab_strs == [b \in 0..255 |-> utf8_encode(byte_to_unicode[b])]

(***************************************************************************)
(* The external collaborators, as the core uses them.                      *)
(*                                                                         *)
(* A parsed JSON document (cJSON tree) is a record:                        *)
(*   parse_ok       cJSON_Parse returned a tree                            *)
(*   has_vocab      "model" exists and has a "vocab" member                *)
(*   vocab          the members of model.vocab, [token, id], in order      *)
(*   has_merges     model.merges exists and is an array                    *)
(*   merges         its elements: [kind |-> "string", s] for "L R",        *)
(*                  [kind |-> "array", l, r] for ["L", "R"]                *)
(*   pre_tokenizer  [present, type, add_prefix_space, has_regex, regex,    *)
(*                  pretokenizers]; the elements of pretokenizers have the *)
(*                  first five fields                                      *)
(*   has_added      added_tokens exists and is an array                    *)
(*   added_tokens   its elements, [content, id], in order                  *)
(* All strings are valid UTF-8, as the README requires of a tokenizer.json, *)
(* and the ids of added_tokens and of the tokens of merge rules are        *)
(* non-negative.                                                           *)
(*                                                                         *)
(* The regex engine knows three patterns: " +" (a run of spaces), "a*" (a  *)
(* possibly empty run of the letter a) and "(", which does not compile.    *)
(* A match never ends before it starts and never starts before the offset  *)
(* it was asked for.                                                       *)
(***************************************************************************)
\* A null char* (no C string holds the byte 0, so no string equals it).
NullStr == <<0>>

\* pcre2_compile(pattern, ...) != NULL
pcre2_compile(pattern) == pattern \in {" +", "a*"}

\* The length of the run of byte c in text from the 0-based offset i.
RECURSIVE RunLen(_, _, _)
RunLen(text, i, c) ==
    IF i < Len(text) /\ text[i + 1] = c THEN 1 + RunLen(text, i + 1, c) ELSE 0

\* pcre2_match(code, text, text_len, offset, ...): rc < 0 for no match and
\* for an error, else rc = 1 and ovector[0], ovector[1] as start, end.  The
\* patterns are compiled with PCRE2_UTF: a subject that is not valid UTF-8
\* from the offset on, which includes an offset inside a character, is
\* refused with an error.
pcre2_match(pattern, text, offset) ==
    IF ~Utf8Walks(text, offset) THEN [rc |-> -2, start |-> 0, end |-> 0]
    ELSE IF pattern = "a*"
    THEN [rc |-> 1, start |-> offset, end |-> offset + RunLen(text, offset, 97)]
    ELSE LET hits == {i \in offset..(Len(text) - 1) : text[i + 1] = 32}
         IN IF hits = {} THEN [rc |-> -1, start |-> 0, end |-> 0]
            ELSE LET st == CHOOSE i \in hits : \A j \in hits : i <= j
                 IN [rc |-> 1, start |-> st, end |-> st + RunLen(text, st, 32)]

\* HASH_FIND_STR(map, key, entry): the 1-based place of the entry, 0 for NULL.
HashFind(map, key) ==
    LET found == {k \in 1..Len(map) : map[k].token = key}
    IN IF found = {} THEN 0 ELSE CHOOSE k \in found : \A j \in found : k <= j

(***************************************************************************)
(* bbpe_init, section 1: the vocabulary.                                   *)
(***************************************************************************)
\* max_id after the walk of model.vocab (-1 when nothing was entered).
MaxId(vocab) ==
    LET above == {vocab[k].id : k \in 1..Len(vocab)} \cup {-1}
    IN CHOOSE m \in above : \A x \in above : x <= m

\* id_to_token after its fill loop: a later entry overwrites an earlier one.
FillIdToToken(vocab_map, vocab_size) ==
    [id \in 0..(vocab_size - 1) |->
        LET at == {k \in 1..Len(vocab_map) : vocab_map[k].id = id}
        IN IF at = {} THEN NullStr
           ELSE vocab_map[CHOOSE k \in at : \A j \in at : j <= k].token]

(***************************************************************************)
(* bbpe_init, section 2: the merges.                                       *)
(***************************************************************************)
\* strchr(combined, ' '): the 0-based offset of the first space, -1 for NULL.
FirstSpace(s) ==
    LET at == {i \in 0..(Len(s) - 1) : s[i + 1] = 32}
    IN IF at = {} THEN -1 ELSE CHOOSE i \in at : \A j \in at : i <= j

\* SplitMergeItem without the two comparisons with STRING_TEMP_SIZE.
SplitMergeItemAnyLength(m) ==
    IF m.kind = "string"
    THEN IF FirstSpace(m.s) = -1
         THEN [ok |-> FALSE, l |-> <<>>, r |-> <<>>]
         ELSE [ok |-> TRUE, l |-> Slice(m.s, 0, FirstSpace(m.s)),
               r |-> Slice(m.s, FirstSpace(m.s) + 1, Len(m.s))]
    ELSE IF m.kind = "array"
    THEN [ok |-> TRUE, l |-> m.l, r |-> m.r]
    ELSE [ok |-> FALSE, l |-> <<>>, r |-> <<>>]

\* The left and right strings of one merges element, ok = FALSE on `continue`.
SplitMergeItem(m) ==
    IF m.kind = "string"
    THEN IF Len(m.s) > STRING_TEMP_SIZE \/ FirstSpace(m.s) = -1
         THEN [ok |-> FALSE, l |-> <<>>, r |-> <<>>]
         ELSE [ok |-> TRUE, l |-> Slice(m.s, 0, FirstSpace(m.s)),
               r |-> Slice(m.s, FirstSpace(m.s) + 1, Len(m.s))]
    ELSE IF m.kind = "array"
    THEN IF Len(m.l) + Len(m.r) > STRING_TEMP_SIZE
         THEN [ok |-> FALSE, l |-> <<>>, r |-> <<>>]
         ELSE [ok |-> TRUE, l |-> m.l, r |-> m.r]
    ELSE [ok |-> FALSE, l |-> <<>>, r |-> <<>>]

\* The cJSON_ArrayForEach loop over merges from element k on: temp_records.
\* i is advanced only at the end of the loop body, so not on `continue`.
\* ParseMerges with i advanced for every element of the list.
RECURSIVE ParseMergesCounting(_, _, _, _, _)
ParseMergesCounting(vocab_map, merges, k, i, records) ==
    IF k > Len(merges) THEN records
    ELSE LET sp == SplitMergeItem(merges[k])
             le == HashFind(vocab_map, sp.l)
             re == HashFind(vocab_map, sp.r)
             me == HashFind(vocab_map, sp.l \o sp.r)
         IN IF ~sp.ok \/ le = 0 \/ re = 0
               \/ Len(sp.l) + Len(sp.r) >= STRING_TEMP_SIZE + 1 \/ me = 0
            THEN ParseMergesCounting(vocab_map, merges, k + 1, i + 1, records)
            ELSE ParseMergesCounting(vocab_map, merges, k + 1, i + 1,
                     Append(records, [left_id |-> vocab_map[le].id,
                                      right_id |-> vocab_map[re].id,
                                      new_id |-> vocab_map[me].id,
                                      priority |-> i]))

RECURSIVE ParseMerges(_, _, _, _, _)
ParseMerges(vocab_map, merges, k, i, records) ==
    IF k > Len(merges) THEN records
    ELSE LET sp == SplitMergeItem(merges[k])
             le == HashFind(vocab_map, sp.l)
             re == HashFind(vocab_map, sp.r)
             me == HashFind(vocab_map, sp.l \o sp.r)
         IN IF ~sp.ok \/ le = 0 \/ re = 0
               \/ Len(sp.l) + Len(sp.r) >= STRING_TEMP_SIZE + 1 \/ me = 0
            THEN ParseMerges(vocab_map, merges, k + 1, i, records)
            ELSE ParseMerges(vocab_map, merges, k + 1, i + 1,
                     Append(records, [left_id |-> vocab_map[le].id,
                                      right_id |-> vocab_map[re].id,
                                      new_id |-> vocab_map[me].id,
                                      priority |-> i]))

\* The row of `left` as filled from temp_records, before qsort.
RECURSIVE FillRow(_, _, _)
FillRow(records, j, left) ==
    IF j > Len(records) THEN <<>>
    ELSE IF records[j].left_id = left
    THEN <<[right_id |-> records[j].right_id, new_id |-> records[j].new_id,
            priority |-> records[j].priority]>> \o FillRow(records, j + 1, left)
    ELSE FillRow(records, j + 1, left)

\* compare_merge_rule_items(a, b)
compare_merge_rule_items(a, b) ==
    (IF a.right_id > b.right_id THEN 1 ELSE 0) - (IF a.right_id < b.right_id THEN 1 ELSE 0)

\* What qsort may leave in a row: any arrangement of it that the comparator
\* calls ordered (qsort is not stable, equal keys may land in either order).
QsortResults(row) ==
    LET n == Len(row)
        perms == {p \in [1..n -> 1..n] : \A x, y \in 1..n : x # y => p[x] # p[y]}
        sorted(p) == \A x \in 1..(n - 1) :
                        compare_merge_rule_items(row[p[x]], row[p[x + 1]]) <= 0
    IN {[x \in 1..n |-> row[p[x]]] : p \in {q \in perms : sorted(q)}}

\* The possible tok->rule_rows (row of left id L at place L + 1) for the
\* first n left ids.
RECURSIVE RuleRows(_, _)
RuleRows(records, n) ==
    IF n = 0 THEN {<<>>}
    ELSE {Append(rows, row) : rows \in RuleRows(records, n - 1),
                              row \in QsortResults(FillRow(records, 1, n - 1))}

(***************************************************************************)
(* bbpe_init, section 3: the pre-tokenizer chain.                          *)
(***************************************************************************)
\* parse_pre_tokenizer_node building an inert node from what it cannot handle.
parse_pre_tokenizer_node_lenient(obj) ==
    IF obj.type = "ByteLevel"
    THEN [status |-> BBPE_OK,
          node |-> [type |-> "BYTE_LEVEL", add_prefix_space |-> obj.add_prefix_space]]
    ELSE IF obj.type = "Split" /\ obj.has_regex /\ pcre2_compile(obj.regex)
    THEN [status |-> BBPE_OK,
          node |-> [type |-> "REGEX_SPLIT", regex_pattern |-> obj.regex]]
    ELSE [status |-> BBPE_OK, node |-> [type |-> "NONE"]]

\* parse_pre_tokenizer_node(obj, &status): [status, node]; the node is only
\* meaningful with BBPE_OK (a NULL return leaves *status as the error).
parse_pre_tokenizer_node(obj) ==
    IF obj.type = ""
    THEN [status |-> BBPE_ERR_INVALID_INPUT, node |-> [type |-> "NONE"]]
    ELSE IF obj.type = "ByteLevel"
    THEN [status |-> BBPE_OK,
          node |-> [type |-> "BYTE_LEVEL", add_prefix_space |-> obj.add_prefix_space]]
    ELSE IF obj.type = "Split"
    THEN IF ~obj.has_regex
         THEN [status |-> BBPE_ERR_INVALID_INPUT, node |-> [type |-> "NONE"]]
         ELSE IF ~pcre2_compile(obj.regex)
         THEN [status |-> BBPE_ERR_REGEX_COMPILE, node |-> [type |-> "NONE"]]
         ELSE [status |-> BBPE_OK,
               node |-> [type |-> "REGEX_SPLIT", regex_pattern |-> obj.regex]]
    ELSE [status |-> BBPE_ERR_UNSUPPORTED_TYPE, node |-> [type |-> "NONE"]]

\* The loop over a Sequence's pretokenizers from element i on: [status, head].
RECURSIVE ParseSequence(_, _, _)
ParseSequence(items, i, head) ==
    IF i > Len(items) THEN [status |-> BBPE_OK, head |-> head]
    ELSE LET r == parse_pre_tokenizer_node(items[i])
         IN IF r.status # BBPE_OK THEN [status |-> r.status, head |-> <<>>]
            ELSE ParseSequence(items, i + 1, Append(head, r.node))

\* Section 3 of bbpe_init: [status, head], head being tok->pre_tokenizers.
ParsePreTokenizer(pre_tok) ==
    IF ~pre_tok.present \/ pre_tok.type = ""
    THEN [status |-> BBPE_OK, head |-> <<>>]
    ELSE IF pre_tok.type = "Sequence"
    THEN ParseSequence(pre_tok.pretokenizers, 1, <<>>)
    ELSE LET r == parse_pre_tokenizer_node(pre_tok)
         IN IF r.status # BBPE_OK THEN [status |-> r.status, head |-> <<>>]
            ELSE [status |-> BBPE_OK, head |-> <<r.node>>]

(***************************************************************************)
(* bbpe_init, section 4: added_tokens.                                     *)
(***************************************************************************)
\* AddToken registering the token also when the slot at its id is taken.
AddTokenOverwrites(tok, content, sid) ==
    LET new_size == IF sid >= tok.vocab_size THEN sid + 1 ELSE tok.vocab_size
        grown_ids == [i \in 0..(new_size - 1) |->
                        IF i < tok.vocab_size THEN tok.id_to_token[i] ELSE NullStr]
        grown_rows == [i \in 1..new_size |->
                        IF i <= tok.vocab_size THEN tok.rule_rows[i] ELSE <<>>]
        grown == [tok EXCEPT !.id_to_token = grown_ids, !.rule_rows = grown_rows,
                             !.vocab_size = new_size]
    IN [grown EXCEPT
           !.special_tokens_map = Append(@, [token |-> content, id |-> sid]),
           !.id_to_token[sid] = content]

\* AddToken entering the token in the special map only: the slot at its id
\* in the id-indexed array stays empty.
AddTokenMapOnly(tok, content, sid) ==
    LET new_size == IF sid >= tok.vocab_size THEN sid + 1 ELSE tok.vocab_size
        grown_ids == [i \in 0..(new_size - 1) |->
                        IF i < tok.vocab_size THEN tok.id_to_token[i] ELSE NullStr]
        grown_rows == [i \in 1..new_size |->
                        IF i <= tok.vocab_size THEN tok.rule_rows[i] ELSE <<>>]
        grown == [tok EXCEPT !.id_to_token = grown_ids, !.rule_rows = grown_rows,
                             !.vocab_size = new_size]
    IN IF grown.id_to_token[sid] = NullStr
       THEN [grown EXCEPT
                !.special_tokens_map = Append(@, [token |-> content, id |-> sid])]
       ELSE grown

\* AddToken registering only the tokens whose id lies past the arrays.
AddTokenPastEnd(tok, content, sid) ==
    LET new_size == IF sid >= tok.vocab_size THEN sid + 1 ELSE tok.vocab_size
        grown_ids == [i \in 0..(new_size - 1) |->
                        IF i < tok.vocab_size THEN tok.id_to_token[i] ELSE NullStr]
        grown_rows == [i \in 1..new_size |->
                        IF i <= tok.vocab_size THEN tok.rule_rows[i] ELSE <<>>]
        grown == [tok EXCEPT !.id_to_token = grown_ids, !.rule_rows = grown_rows,
                             !.vocab_size = new_size]
    IN IF sid >= tok.vocab_size
       THEN [grown EXCEPT
                !.special_tokens_map = Append(@, [token |-> content, id |-> sid]),
                !.id_to_token[sid] = content]
       ELSE grown

\* One added_tokens element: grow the arrays up to its id, then register it
\* as a special token if the slot at its id is still empty.
AddToken(tok, content, sid) ==
    LET new_size == IF sid >= tok.vocab_size THEN sid + 1 ELSE tok.vocab_size
        grown_ids == [i \in 0..(new_size - 1) |->
                        IF i < tok.vocab_size THEN tok.id_to_token[i] ELSE NullStr]
        grown_rows == [i \in 1..new_size |->
                        IF i <= tok.vocab_size THEN tok.rule_rows[i] ELSE <<>>]
        grown == [tok EXCEPT !.id_to_token = grown_ids, !.rule_rows = grown_rows,
                             !.vocab_size = new_size]
    IN IF grown.id_to_token[sid] = NullStr
       THEN [grown EXCEPT
                !.special_tokens_map = Append(@, [token |-> content, id |-> sid]),
                !.id_to_token[sid] = content]
       ELSE grown

RECURSIVE AddTokens(_, _, _)
AddTokens(tok, added, k) ==
    IF k > Len(added) THEN tok
    ELSE AddTokens(AddToken(tok, added[k].content, added[k].id), added, k + 1)

(***************************************************************************)
(* bbpe_init as a whole.                                                   *)
(***************************************************************************)
\* The handle before bbpe_init has built anything (and after bbpe_destroy).
NoTokenizer ==
    [vocab_map |-> <<>>, merge_count |-> 0, rule_rows |-> <<>>, vocab_size |-> 0,
     special_tokens_map |-> <<>>, id_to_token |-> <<>>, pre_tokenizers |-> <<>>]

\* What a failing bbpe_init returns: the status; the handle was destroyed.
InitFailure(status) == [status |-> status, tok |-> NoTokenizer]

\* The outcomes [status, tok] of bbpe_init(json_content, &tokenizer) when
\* every allocation succeeds: one per result qsort may give.
InitOutcomes(json) ==
    IF ~json.parse_ok THEN {InitFailure(BBPE_ERR_JSON_PARSE)}
    ELSE IF ~json.has_vocab THEN {InitFailure(BBPE_ERR_VOCAB_MISSING)}
    ELSE IF MaxId(json.vocab) < 0 THEN {InitFailure(BBPE_ERR_VOCAB_MISSING)}
    ELSE LET vocab_map == json.vocab
             vocab_size == MaxId(json.vocab) + 1
             records == IF json.has_merges
                        THEN ParseMerges(vocab_map, json.merges, 1, 0, <<>>)
                        ELSE <<>>
             pre == ParsePreTokenizer(json.pre_tokenizer)
         IN IF pre.status # BBPE_OK THEN {InitFailure(pre.status)}
            ELSE {[status |-> BBPE_OK,
                   tok |-> AddTokens(
                       [vocab_map |-> vocab_map,
                        merge_count |-> IF json.has_merges THEN Len(json.merges) ELSE 0,
                        rule_rows |-> rows,
                        vocab_size |-> vocab_size,
                        special_tokens_map |-> <<>>,
                        id_to_token |-> FillIdToToken(vocab_map, vocab_size),
                        pre_tokenizers |-> pre.head],
                       IF json.has_added THEN json.added_tokens ELSE <<>>, 1)]
                  : rows \in RuleRows(records, vocab_size)}

(***************************************************************************)
(* extract_special_tokens.                                                 *)
(***************************************************************************)
\* strncmp(pos, token, strlen(token)) == 0 at the 0-based offset pos.
MatchesAt(text, pos, token) ==
    /\ pos + Len(token) <= Len(text)
    /\ \A k \in 1..Len(token) : text[pos + k] = token[k]

\* BestMatch without the length comparison: the first entry that matches.
RECURSIVE BestMatchFirst(_, _, _, _, _)
BestMatchFirst(specials, text, pos, k, best) ==
    IF k > Len(specials) THEN best
    ELSE IF MatchesAt(text, pos, specials[k].token) /\ best = 0
    THEN BestMatchFirst(specials, text, pos, k + 1, k)
    ELSE BestMatchFirst(specials, text, pos, k + 1, best)

\* BestMatch giving way to a longer token that matches further on, inside the
\* longest match at pos.
BestMatchDeferring(specials, text, pos, k, best) ==
    LET at(p) == {j \in 1..Len(specials) :
                    Len(specials[j].token) > 0 /\ MatchesAt(text, p, specials[j].token)}
        longest == CHOOSE j \in at(pos) :
                       \A i \in at(pos) : Len(specials[i].token) <= Len(specials[j].token)
    IN IF at(pos) = {} THEN 0
       ELSE IF \E q \in (pos + 1)..(pos + Len(specials[longest].token) - 1) :
                  \E j \in at(q) : Len(specials[j].token) > Len(specials[longest].token)
       THEN 0
       ELSE longest

\* The HASH_ITER loop from entry k on: the place of best_match in the map
\* (0 for NULL); a later entry wins only if it is strictly longer.
RECURSIVE BestMatch(_, _, _, _, _)
BestMatch(specials, text, pos, k, best) ==
    IF k > Len(specials) THEN best
    ELSE IF /\ MatchesAt(text, pos, specials[k].token)
            /\ Len(specials[k].token) > (IF best = 0 THEN 0 ELSE Len(specials[best].token))
    THEN BestMatch(specials, text, pos, k + 1, k)
    ELSE BestMatch(specials, text, pos, k + 1, best)

\* NormalSegment copying one byte too few.
NormalSegmentShort(text, start, pos) ==
    IF pos > start
    THEN <<[is_special |-> 0, text |-> Slice(text, start, pos - 1), special_id |-> -1]>>
    ELSE <<>>

\* A normal segment for text[start..pos), when it is not empty.
NormalSegment(text, start, pos) ==
    IF pos > start
    THEN <<[is_special |-> 0, text |-> Slice(text, start, pos), special_id |-> -1]>>
    ELSE <<>>

\* ScanSegments resuming one byte after the start of a special token
\* instead of after its end.
RECURSIVE ScanSegmentsInside(_, _, _, _, _)
ScanSegmentsInside(specials, text, start, pos, segments) ==
    IF pos >= Len(text)
    THEN segments \o (IF pos > start
                      THEN <<[is_special |-> 0, text |-> Slice(text, start, pos),
                              special_id |-> -1]>>
                      ELSE <<>>)
    ELSE LET best_match == BestMatch(specials, text, pos, 1, 0)
         IN IF best_match # 0
            THEN ScanSegmentsInside(specials, text, pos + 1, pos + 1,
                     segments \o (IF pos > start
                                  THEN <<[is_special |-> 0,
                                          text |-> Slice(text, start, pos),
                                          special_id |-> -1]>>
                                  ELSE <<>>)
                         \o <<[is_special |-> 1, text |-> NullStr,
                               special_id |-> specials[best_match].id]>>)
            ELSE ScanSegmentsInside(specials, text, start, pos + 1, segments)

\* The scan loop of extract_special_tokens and the flush after it.
RECURSIVE ScanSegments(_, _, _, _, _)
ScanSegments(specials, text, start, pos, segments) ==
    IF pos >= Len(text) THEN segments \o NormalSegment(text, start, pos)
    ELSE LET best_match == BestMatch(specials, text, pos, 1, 0)
         IN IF best_match # 0
            THEN ScanSegments(specials, text,
                     pos + Len(specials[best_match].token),
                     pos + Len(specials[best_match].token),
                     segments \o NormalSegment(text, start, pos)
                         \o <<[is_special |-> 1, text |-> NullStr,
                               special_id |-> specials[best_match].id]>>)
            ELSE ScanSegments(specials, text, start, pos + 1, segments)

\* extract_special_tokens(tok, text, &seg_count) when no allocation fails.
extract_special_tokens(tok, text) ==
    ScanSegments(tok.special_tokens_map, text, 0, 0, <<>>)

(***************************************************************************)
(* apply_single_pre_tokenizer and pre_tokenize.                            *)
(***************************************************************************)
\* NextOffset going two bytes on after an empty match.
NextOffsetSkips(m) == IF m.start = m.end THEN m.end + 2 ELSE m.end

\* The offset of the next pass after the match m: offset = end, and one more
\* when start == end.
NextOffset(m) == IF m.start = m.end THEN m.end + 1 ELSE m.end

\* The match loop of the REGEX_SPLIT branch and the rest after it: chunks.
\* RegexSplitLoop keeping only the text between the matches.
RECURSIVE RegexSplitLoopBetween(_, _, _, _, _)
RegexSplitLoopBetween(pattern, text, offset, last_end, chunks) ==
    LET m == pcre2_match(pattern, text, offset)
    IN IF offset >= Len(text) \/ m.rc < 0
       THEN IF last_end < Len(text)
            THEN Append(chunks, Slice(text, last_end, Len(text)))
            ELSE chunks
       ELSE RegexSplitLoopBetween(pattern, text,
                NextOffset(m),
                m.end,
                IF m.start > last_end
                THEN Append(chunks, Slice(text, last_end, m.start))
                ELSE chunks)

RECURSIVE RegexSplitLoop(_, _, _, _, _)
RegexSplitLoop(pattern, text, offset, last_end, chunks) ==
    LET m == pcre2_match(pattern, text, offset)
    IN IF offset >= Len(text) \/ m.rc < 0
       THEN IF last_end < Len(text)
            THEN Append(chunks, Slice(text, last_end, Len(text)))
            ELSE chunks
       ELSE RegexSplitLoop(pattern, text,
                NextOffset(m),
                m.end,
                (IF m.start > last_end
                 THEN Append(chunks, Slice(text, last_end, m.start))
                 ELSE chunks) \o <<Slice(text, m.start, m.end)>>)

\* apply_single_pre_tokenizer(node, text, &out) when no allocation fails:
\* out->chunks.
apply_single_pre_tokenizer(node, text) ==
    IF node.type = "BYTE_LEVEL"
    THEN IF node.add_prefix_space THEN <<(<<32>> \o text)>> ELSE <<text>>
    ELSE IF node.type = "REGEX_SPLIT"
    THEN LET chunks == RegexSplitLoop(node.regex_pattern, text, 0, 0, <<>>)
         IN IF chunks = <<>> THEN <<text>> ELSE chunks
    ELSE <<>>

\* One node applied to every chunk of `current`: the list `next`.
RECURSIVE ApplyToAll(_, _, _)
ApplyToAll(node, current, i) ==
    IF i > Len(current) THEN <<>>
    ELSE apply_single_pre_tokenizer(node, current[i]) \o ApplyToAll(node, current, i + 1)

\* RunChain applying the last node of the chain first.
RECURSIVE RunChainBackwards(_, _, _)
RunChainBackwards(nodes, n, current) ==
    IF n > Len(nodes) THEN current
    ELSE ApplyToAll(nodes[n], RunChainBackwards(nodes, n + 1, current), 1)

\* The while loop of pre_tokenize from node n on.
RECURSIVE RunChain(_, _, _)
RunChain(nodes, n, current) ==
    IF n > Len(nodes) THEN current
    ELSE RunChain(nodes, n + 1, ApplyToAll(nodes[n], current, 1))

\* pre_tokenize(tok, text, &out) when no allocation fails: out->chunks.
pre_tokenize(tok, text) == RunChain(tok.pre_tokenizers, 1, <<text>>)

(***************************************************************************)
(* find_merge_rule, find_best_merge and the two phases of encode_chunk.    *)
(***************************************************************************)
\* The binary search of find_merge_rule in a row: the place found, 0 if none.
\* lo and hi are the C indexes.
\* BinarySearch giving up when one item is left to look at.
RECURSIVE BinarySearchOpen(_, _, _, _)
BinarySearchOpen(row, right, lo, hi) ==
    IF lo >= hi THEN 0
    ELSE LET mid == (lo + hi) \div 2
         IN IF row[mid + 1].right_id = right THEN mid + 1
            ELSE IF row[mid + 1].right_id < right
            THEN BinarySearchOpen(row, right, mid + 1, hi)
            ELSE BinarySearchOpen(row, right, lo, mid - 1)

RECURSIVE BinarySearch(_, _, _, _)
BinarySearch(row, right, lo, hi) ==
    IF lo > hi THEN 0
    ELSE LET mid == (lo + hi) \div 2
         IN IF row[mid + 1].right_id = right THEN mid + 1
            ELSE IF row[mid + 1].right_id < right
            THEN BinarySearch(row, right, mid + 1, hi)
            ELSE BinarySearch(row, right, lo, mid - 1)

\* find_merge_rule(tok, left, right, &new_id, &priority): [found, new_id, priority]
find_merge_rule(tok, left, right) ==
    IF left < 0 \/ left >= tok.vocab_size \/ Len(tok.rule_rows[left + 1]) = 0
    THEN [found |-> 0, new_id |-> 0, priority |-> 0]
    ELSE LET row == tok.rule_rows[left + 1]
             at  == BinarySearch(row, right, 0, Len(row) - 1)
         IN IF at = 0 THEN [found |-> 0, new_id |-> 0, priority |-> 0]
            ELSE [found |-> 1, new_id |-> row[at].new_id, priority |-> row[at].priority]

\* BestMergeLoop comparing with <=: on equal priorities the last pair wins.
RECURSIVE BestMergeLoopLast(_, _, _, _)
BestMergeLoopLast(ids, tok, i, best) ==
    IF i >= Len(ids) - 1 THEN best
    ELSE LET r == find_merge_rule(tok, ids[i + 1], ids[i + 2])
         IN IF r.found = 1 /\ r.priority <= best.min_priority
            THEN BestMergeLoopLast(ids, tok, i + 1,
                     [best_idx |-> i, min_priority |-> r.priority, new_id |-> r.new_id])
            ELSE BestMergeLoopLast(ids, tok, i + 1, best)

\* The for loop of find_best_merge from i on: [best_idx, min_priority, new_id].
RECURSIVE BestMergeLoop(_, _, _, _)
BestMergeLoop(ids, tok, i, best) ==
    IF i >= Len(ids) - 1 THEN best
    ELSE LET r == find_merge_rule(tok, ids[i + 1], ids[i + 2])
         IN IF r.found = 1 /\ r.priority < best.min_priority
            THEN BestMergeLoop(ids, tok, i + 1,
                     [best_idx |-> i, min_priority |-> r.priority, new_id |-> r.new_id])
            ELSE BestMergeLoop(ids, tok, i + 1, best)

\* find_best_merge(ids, token_count, tok, &new_id): [best_idx, ..., new_id]
find_best_merge(ids, tok) ==
    BestMergeLoop(ids, tok, 0, [best_idx |-> -1, min_priority |-> INT32_MAX, new_id |-> 0])

\* ApplyMerge without the move of the tail: the right id of the pair stays.
ApplyMergeInPlace(ids, best_idx, new_id) ==
    [k \in 1..Len(ids) |-> IF k = best_idx + 1 THEN new_id ELSE ids[k]]

\* One pass of the merge loop of encode_chunk: ids[best_idx] = new_id and the
\* tail moved down by one.
ApplyMerge(ids, best_idx, new_id) ==
    [k \in 1..(Len(ids) - 1) |->
        IF k < best_idx + 1 THEN ids[k]
        ELSE IF k = best_idx + 1 THEN new_id
        ELSE ids[k + 1]]

\* The vocabulary id of one byte in the expansion loop of encode_chunk: the
\* precomputed string first, then the raw byte; -1 when neither is found.
ByteTokenId(tok, byte) ==
    LET e1 == HashFind(tok.vocab_map, byte_vocab_strs[byte])
        e2 == HashFind(tok.vocab_map, <<byte>>)
    IN IF e1 # 0 THEN tok.vocab_map[e1].id
       ELSE IF e2 # 0 THEN tok.vocab_map[e2].id
       ELSE -1

\* ExpandBytes looking up the precomputed string of a byte only.
ExpandBytesMapped(tok, chunk) ==
    LET ids == [k \in 1..Len(chunk) |-> ByteTokenId(tok, chunk[k])]
    IN IF \E k \in 1..Len(chunk) : HashFind(tok.vocab_map, byte_vocab_strs[chunk[k]]) = 0
       THEN [status |-> BBPE_ERR_TOKEN_NOT_FOUND, ids |-> <<>>]
       ELSE [status |-> BBPE_OK, ids |-> ids]

\* The expansion loop of encode_chunk: [status, ids].
ExpandBytes(tok, chunk) ==
    LET ids == [k \in 1..Len(chunk) |-> ByteTokenId(tok, chunk[k])]
    IN IF \E k \in 1..Len(chunk) : HashFind(tok.vocab_map, byte_vocab_strs[chunk[k]]) = 0
                                   /\ HashFind(tok.vocab_map, <<chunk[k]>>) = 0
       THEN [status |-> BBPE_ERR_TOKEN_NOT_FOUND, ids |-> <<>>]
       ELSE [status |-> BBPE_OK, ids |-> ids]

(***************************************************************************)
(* bbpe_decode.                                                            *)
(***************************************************************************)
\* IsMappedCodepoint with a table of 256 entries only.
IsMappedCodepointLatin(cp) == cp < 256 /\ unicode_to_byte[cp] # 0

\* The test of bbpe_decode for "cp is a byte of the alphabet".
IsMappedCodepoint(cp) == cp < UNICODE_MAP_SIZE /\ unicode_to_byte[cp] # 0

\* DecodeString taking every byte of s for a code-point of its own.
RECURSIVE DecodeStringBytewise(_, _)
DecodeStringBytewise(s, p) ==
    IF p >= Len(s) THEN <<>>
    ELSE (IF IsMappedCodepoint(s[p + 1]) THEN <<unicode_to_byte[s[p + 1]]>>
          ELSE <<s[p + 1]>>)
         \o DecodeStringBytewise(s, p + 1)

\* The bytes the second pass writes for token string s from p on.
RECURSIVE DecodeString(_, _)
DecodeString(s, p) ==
    IF p >= Len(s) THEN <<>>
    ELSE LET d == utf8_decode(s, p)
         IN (IF IsMappedCodepoint(d.cp) THEN <<unicode_to_byte[d.cp]>>
             ELSE Slice(s, p, p + d.len))
            \o DecodeString(s, p + d.len)

\* FirstPass without the test of the slot: only the range of an id is looked at.
RECURSIVE FirstPassInRange(_, _, _)
FirstPassInRange(tok, ids, i) ==
    IF i > Len(ids) THEN BBPE_OK
    ELSE IF ids[i] < 0 \/ ids[i] >= tok.vocab_size THEN BBPE_ERR_TOKEN_NOT_FOUND
    ELSE IF ~Utf8Walks(tok.id_to_token[ids[i]], 0) THEN BBPE_ERR_INVALID_INPUT
    ELSE FirstPassInRange(tok, ids, i + 1)

\* The first pass over ids from place i on: the status it ends with.
RECURSIVE FirstPass(_, _, _)
FirstPass(tok, ids, i) ==
    IF i > Len(ids) THEN BBPE_OK
    ELSE IF ids[i] < 0 \/ ids[i] >= tok.vocab_size THEN BBPE_ERR_TOKEN_NOT_FOUND
    ELSE IF tok.id_to_token[ids[i]] = NullStr THEN BBPE_ERR_TOKEN_NOT_FOUND
    ELSE IF ~Utf8Walks(tok.id_to_token[ids[i]], 0) THEN BBPE_ERR_INVALID_INPUT
    ELSE FirstPass(tok, ids, i + 1)

\* The second pass: result.
RECURSIVE SecondPass(_, _, _)
SecondPass(tok, ids, i) ==
    IF i > Len(ids) THEN <<>>
    ELSE DecodeString(tok.id_to_token[ids[i]], 0) \o SecondPass(tok, ids, i + 1)

\* bbpe_decode without the test of count: an empty list decodes to "".
bbpe_decode_any_count(tok, ids_null, ids, count, malloc_ok) ==
    IF ids_null /\ count # 0
    THEN [status |-> BBPE_ERR_INVALID_INPUT, written |-> FALSE, text |-> <<>>]
    ELSE IF FirstPass(tok, ids, 1) # BBPE_OK
    THEN [status |-> FirstPass(tok, ids, 1), written |-> FALSE, text |-> <<>>]
    ELSE IF ~malloc_ok
    THEN [status |-> BBPE_ERR_MEMORY, written |-> FALSE, text |-> <<>>]
    ELSE [status |-> BBPE_OK, written |-> TRUE, text |-> SecondPass(tok, ids, 1)]

\* bbpe_decode(tokenizer, ids, count, &out_text) on a non-null handle and a
\* non-null out_text: [status, written, text]; written says whether *out_text
\* was assigned.  malloc_ok is whether malloc(total_bytes + 1) succeeds.
bbpe_decode(tok, ids_null, ids, count, malloc_ok) ==
    IF ids_null \/ count = 0
    THEN [status |-> BBPE_ERR_INVALID_INPUT, written |-> FALSE, text |-> <<>>]
    ELSE IF FirstPass(tok, ids, 1) # BBPE_OK
    THEN [status |-> FirstPass(tok, ids, 1), written |-> FALSE, text |-> <<>>]
    ELSE IF ~malloc_ok
    THEN [status |-> BBPE_ERR_MEMORY, written |-> FALSE, text |-> <<>>]
    ELSE [status |-> BBPE_OK, written |-> TRUE, text |-> SecondPass(tok, ids, 1)]

(***************************************************************************)
(* The inputs of the model: tokenizer.json documents, texts, id lists.     *)
(***************************************************************************)
\* The vocabulary string of a byte string: utf8(B(b)) for each of its bytes.
VocabString(bytes) == Flatten([k \in 1..Len(bytes) |-> byte_vocab_strs[bytes[k]]])

Entry(bytes, id) == [token |-> VocabString(bytes), id |-> id]

\* a b space < and the two bytes of U+00E9, then the merged tokens.
VocabFull ==
    <<Entry(<<97>>, 0), Entry(<<98>>, 1), Entry(<<32>>, 2), Entry(<<60>>, 3),
      Entry(<<195>>, 4), Entry(<<169>>, 5), Entry(<<97, 98>>, 6),
      Entry(<<97, 97>>, 7), Entry(<<97, 97, 98>>, 8), Entry(<<97, 32>>, 9),
      Entry(<<195, 169>>, 10)>>

\* No token for the byte b: ids 1, 6 and 8 are unused.
VocabNoB ==
    <<Entry(<<97>>, 0), Entry(<<32>>, 2), Entry(<<60>>, 3), Entry(<<195>>, 4),
      Entry(<<169>>, 5), Entry(<<97, 97>>, 7), Entry(<<97, 32>>, 9)>>

\* Two tokens with the id 1.
VocabDup ==
    <<Entry(<<97>>, 0), Entry(<<98>>, 1), Entry(<<32>>, 2), Entry(<<60>>, 3),
      Entry(<<195>>, 4), Entry(<<169>>, 5), Entry(<<97, 98>>, 1)>>

MergeString(l, r) ==
    [kind |-> "string", s |-> VocabString(l) \o <<32>> \o VocabString(r),
     l |-> <<>>, r |-> <<>>]

MergeArray(l, r) ==
    [kind |-> "array", s |-> <<>>, l |-> VocabString(l), r |-> VocabString(r)]

\* "a b", ["a","a"], "x y" (x and y are no tokens), "a Ġ", "Ã ©", "aa b"
MergesA ==
    <<MergeString(<<97>>, <<98>>), MergeArray(<<97>>, <<97>>),
      MergeString(<<120>>, <<121>>), MergeString(<<97>>, <<32>>),
      MergeString(<<195>>, <<169>>), MergeString(<<97, 97>>, <<98>>)>>

\* ["a","a"], "a b" and ["a","a"] a second time
MergesB ==
    <<MergeArray(<<97>>, <<97>>), MergeString(<<97>>, <<98>>),
      MergeArray(<<97>>, <<97>>)>>

NodeJson(type, add_prefix_space, has_regex, regex) ==
    [type |-> type, add_prefix_space |-> add_prefix_space,
     has_regex |-> has_regex, regex |-> regex]

ByteLevelJson(add_prefix_space) == NodeJson("ByteLevel", add_prefix_space, FALSE, "")

SplitJson(regex) == NodeJson("Split", FALSE, TRUE, regex)

\* The top-level pre_tokenizer: one node, a Sequence of nodes, or absent.
PreNode(node) ==
    [present |-> TRUE, type |-> node.type, add_prefix_space |-> node.add_prefix_space,
     has_regex |-> node.has_regex, regex |-> node.regex, pretokenizers |-> <<>>]

PreSequence(nodes) ==
    [present |-> TRUE, type |-> "Sequence", add_prefix_space |-> FALSE,
     has_regex |-> FALSE, regex |-> "", pretokenizers |-> nodes]

PreAbsent ==
    [present |-> FALSE, type |-> "", add_prefix_space |-> FALSE,
     has_regex |-> FALSE, regex |-> "", pretokenizers |-> <<>>]

Added(content, id) == [content |-> content, id |-> id]

Doc(vocab, has_merges, merges, pre_tokenizer, has_added, added_tokens) ==
    [parse_ok |-> TRUE, has_vocab |-> TRUE, vocab |-> vocab,
     has_merges |-> has_merges, merges |-> merges, pre_tokenizer |-> pre_tokenizer,
     has_added |-> has_added, added_tokens |-> added_tokens]

\* The special tokens "<a" and "<ab" (ids past the vocabulary, with a gap)
\* and an entry for the id 6, which the vocabulary holds.
DocQwenLike ==
    Doc(VocabFull, TRUE, MergesA,
        PreSequence(<<SplitJson(" +"), ByteLevelJson(FALSE)>>),
        TRUE, <<Added(<<60, 97>>, 11), Added(<<60, 97, 98>>, 13),
                Added(<<98, 60>>, 6)>>)

DocPrefixSpace ==
    Doc(VocabFull, TRUE, MergesB, PreNode(ByteLevelJson(TRUE)),
        TRUE, <<Added(<<60, 97>>, 11)>>)

DocPlain == Doc(VocabFull, TRUE, MergesA, PreAbsent, FALSE, <<>>)

DocNoB ==
    Doc(VocabNoB, TRUE, MergesA, PreNode(ByteLevelJson(FALSE)),
        TRUE, <<Added(<<60, 97>>, 11)>>)

\* Two tokens share the id 1, and the rule "a b" merges into one of them.
DocDupId ==
    Doc(VocabDup, TRUE, <<MergeString(<<97>>, <<98>>)>>, PreNode(ByteLevelJson(FALSE)),
        FALSE, <<>>)

\* The special tokens U+00E9 (its UTF-8 bytes) and "a<".
DocEmptyMatch ==
    Doc(VocabFull, TRUE, MergesB,
        PreSequence(<<ByteLevelJson(FALSE), SplitJson("a*")>>),
        TRUE, <<Added(<<195, 169>>, 12), Added(<<97, 60>>, 11)>>)

\* The vocabulary has a token for the byte 0, the string of U+0100, and the
\* token U+4E2D, a character outside the byte alphabet; the id 12 is unused.
\* The added tokens: "<a" for the unused id 12, "<b" for an id two past the
\* vocabulary, "bb" for the same id and "b<" for the id 6 of the vocabulary.
DocByteZero ==
    Doc(VocabFull \o <<Entry(<<0>>, 11), [token |-> <<228, 184, 173>>, id |-> 13]>>,
        TRUE, MergesA, PreAbsent,
        TRUE, <<Added(<<60, 97>>, 12), Added(<<60, 98>>, 15), Added(<<98, 98>>, 15),
                Added(<<98, 60>>, 6)>>)

\* A vocabulary that is not byte-level: the space is the token " " itself,
\* not the string of B(32), and the bytes of U+00E9 have no token.  The
\* merges are "a b" and ["a", " "].  The chain splits at the runs of spaces
\* and then puts a space before every chunk.
DocRawSpace ==
    Doc(<<Entry(<<97>>, 0), Entry(<<98>>, 1), [token |-> <<32>>, id |-> 2],
          Entry(<<60>>, 3), Entry(<<97, 98>>, 4), [token |-> <<97, 32>>, id |-> 5]>>,
        TRUE,
        <<MergeString(<<97>>, <<98>>),
          [kind |-> "array", s |-> <<>>, l |-> <<97>>, r |-> <<32>>]>>,
        PreSequence(<<SplitJson(" +"), ByteLevelJson(TRUE)>>), FALSE, <<>>)

\* The token "a" has the id -1: the loader takes the number as it is.
DocNegativeId ==
    Doc(<<Entry(<<97>>, -1), Entry(<<98>>, 0), Entry(<<32>>, 1), Entry(<<60>>, 2),
          Entry(<<98, 98>>, 3)>>,
        TRUE, <<MergeString(<<98>>, <<98>>)>>, PreAbsent, FALSE, <<>>)

\* The special tokens "<a" and "a<b": in "<a<b" the longer one starts inside
\* the shorter one.
DocOverlap ==
    Doc(VocabFull, TRUE, MergesA, PreAbsent, TRUE,
        <<Added(<<60, 97>>, 11), Added(<<97, 60, 98>>, 12)>>)

\* The byte b, n times.
Rep(b, n) == [k \in 1..n |-> b]

\* Tokens of 126 to 128 bytes and their concatenations of 254 to 256 bytes.
\* The merges: a string of 256 bytes, an array of 128 + 128 bytes, an array
\* of 128 + 127 bytes, a string of 255 bytes, and "a b".
DocLongRules ==
    Doc(<<Entry(<<97>>, 0), Entry(<<98>>, 1), Entry(<<97, 98>>, 2),
          Entry(Rep(97, 127), 3), Entry(Rep(98, 128), 4), Entry(Rep(97, 128), 5),
          Entry(Rep(97, 126), 6), Entry(Rep(98, 127), 9),
          Entry(Rep(97, 127) \o Rep(98, 128), 10),
          Entry(Rep(97, 128) \o Rep(98, 128), 15),
          Entry(Rep(97, 128) \o Rep(98, 127), 16),
          Entry(Rep(97, 126) \o Rep(98, 128), 17)>>,
        TRUE,
        <<MergeString(Rep(97, 127), Rep(98, 128)), MergeArray(Rep(97, 128), Rep(98, 128)),
          MergeArray(Rep(97, 128), Rep(98, 127)), MergeString(Rep(97, 126), Rep(98, 128)),
          MergeString(<<97>>, <<98>>)>>,
        PreAbsent, FALSE, <<>>)

DocUnparsable == [DocPlain EXCEPT !.parse_ok = FALSE]

DocNoVocab == [DocPlain EXCEPT !.has_vocab = FALSE]

DocUnsupported ==
    [DocPlain EXCEPT !.pre_tokenizer =
        PreSequence(<<ByteLevelJson(FALSE), NodeJson("Whitespace", FALSE, FALSE, "")>>)]

DocBadRegex == [DocPlain EXCEPT !.pre_tokenizer = PreNode(SplitJson("("))]

DocUnsupportedTop ==
    [DocPlain EXCEPT !.pre_tokenizer = PreNode(NodeJson("Whitespace", FALSE, FALSE, ""))]

\* A Sequence with a pattern that does not compile before an unknown type.
DocBadSequence ==
    [DocPlain EXCEPT !.pre_tokenizer =
        PreSequence(<<SplitJson(" +"), SplitJson("("),
                      NodeJson("Whitespace", FALSE, FALSE, "")>>)]

JsonDocs ==
    {DocQwenLike, DocPrefixSpace, DocPlain, DocNoB, DocDupId, DocEmptyMatch,
     DocByteZero, DocRawSpace, DocNegativeId, DocOverlap, DocLongRules,
     DocUnparsable, DocNoVocab, DocUnsupported, DocBadRegex, DocUnsupportedTop,
     DocBadSequence}

\* The bytes of the enumerated texts: a b space < and 0xC3.
TextBytes == {97, 98, 32, 60, 195}

\* The shape of the driver's text: a multi-byte character, a special token,
\* a stray '<' and the special token again; and U+00E9 alone.
DriverText == <<195, 169, 60, 97, 60, 60, 97>>

\* The texts: the short ones, the driver's, U+00E9 alone, and "<a<b".
Texts ==
    SeqsUpTo(TextBytes, MaxTextLen) \cup {DriverText, <<195, 169>>, <<60, 97, 60, 98>>}

\* Id lists a caller may hand to bbpe_decode without having encoded.
DecodeInputs == {<<>>, <<0>>, <<-1>>, <<8>>, <<14>>, <<7, 12, 2>>, <<11>>,
                 <<0, 13, -1>>}

(***************************************************************************)
(* The state: one caller that loads a tokenizer, encodes one text and      *)
(* decodes one id list.  bbpe_encode is followed loop iteration by loop    *)
(* iteration; pc says where the caller is:                                 *)
(*   "start"    before bbpe_init                                           *)
(*   "ready"    bbpe_init has returned                                     *)
(*   "segment"  in bbpe_encode, at the head of the loop over segments      *)
(*   "chunk"    in bbpe_encode, at the head of the loop over chunks        *)
(*   "merge"    in encode_chunk, at the head of the merge loop             *)
(*   "encoded"  bbpe_encode has returned                                   *)
(*   "decoded"  bbpe_decode of the encoder's output has returned           *)
(*   "decoded_ids"  bbpe_decode of an id list of the caller has returned   *)
(***************************************************************************)
VARIABLES
    pc,
    json,           \* the document bbpe_init was given
    init_status,    \* what bbpe_init returned
    out_tokenizer,  \* whether bbpe_init assigned *out_tokenizer
    tok,            \* the BBPETokenizer
    text,           \* the text bbpe_encode was given
    segments,       \* bbpe_encode: the result of extract_special_tokens
    seg_i,          \* bbpe_encode: i, the segment at hand (C index)
    pre_res,        \* bbpe_encode: pre_res.chunks
    chunk_j,        \* bbpe_encode: j, the chunk at hand (C index)
    ids,            \* encode_chunk: ids[0..token_count-1]
    best_idx,       \* encode_chunk: the last result of find_best_merge
    merge_from,     \* history: ids as they were before the last merge
    out_output,     \* the caller's BBPEOutput: [ids_null, ids, count]
    enc_status,     \* what bbpe_encode returned
    dec_input,      \* the [ids_null, ids, count] bbpe_decode was given
    out_text,       \* the caller's char *: [written, text]
    dec_status,     \* what bbpe_decode returned
    alloc_failed,   \* the allocation of bbpe_init that returned NULL, or "none"
    calls,          \* concurrent callers: the locals of each caller's call
    scratch         \* concurrent callers: the ids array of each encode_chunk

vars ==
    <<pc, json, init_status, out_tokenizer, tok, text, segments, seg_i, pre_res,
      chunk_j, ids, best_idx, merge_from, out_output, enc_status, dec_input,
      out_text, dec_status, alloc_failed, calls, scratch>>

\* The callers that use one handle at the same time.
Threads == {1, 2}

\* A caller that has not called yet.
IdleCall ==
    [pc |-> "idle", text |-> <<>>, segments |-> <<>>, seg_i |-> 0, pre_res |-> <<>>,
     chunk_j |-> 0, in_ids |-> <<>>, out_ids |-> <<>>, out_text |-> <<>>,
     status |-> BBPE_OK, overlapped |-> FALSE]

\* A BBPEOutput with ids == NULL and count == 0.
EmptyOutput == [ids_null |-> TRUE, ids |-> <<>>, count |-> 0]

Init ==
    /\ pc = "start"
    /\ json = DocUnparsable
    /\ init_status = BBPE_OK
    /\ out_tokenizer = FALSE
    /\ tok = NoTokenizer
    /\ text = <<>>
    /\ segments = <<>>
    /\ seg_i = 0
    /\ pre_res = <<>>
    /\ chunk_j = 0
    /\ ids = <<>>
    /\ best_idx = -1
    /\ merge_from = <<>>
    /\ out_output = EmptyOutput
    /\ enc_status = BBPE_OK
    /\ dec_input = EmptyOutput
    /\ out_text = [written |-> FALSE, text |-> <<>>]
    /\ dec_status = BBPE_OK
    /\ alloc_failed = "none"
    /\ calls = [t \in Threads |-> IdleCall]
    /\ scratch = [t \in Threads |-> <<>>]

encVars == <<text, segments, seg_i, pre_res, chunk_j, ids, best_idx, merge_from,
             out_output, enc_status>>

decVars == <<dec_input, out_text, dec_status>>

initVars == <<json, init_status, out_tokenizer, tok, alloc_failed>>

concVars == <<calls, scratch>>

(***************************************************************************)
(* bbpe_init(json_content, &tokenizer).  One allocation of the call may    *)
(* return NULL; the allocations are grouped by the place that makes them.  *)
(***************************************************************************)
\* The nodes section 3 hands to parse_pre_tokenizer_node, in order.
NodeObjects(pre_tok) ==
    IF ~pre_tok.present \/ pre_tok.type = "" THEN <<>>
    ELSE IF pre_tok.type = "Sequence" THEN pre_tok.pretokenizers
    ELSE <<pre_tok>>

\* Node n is reached: every node before it was parsed with BBPE_OK.
NodeReached(pre_tok, n) ==
    \A k \in 1..(n - 1) : parse_pre_tokenizer_node(NodeObjects(pre_tok)[k]).status = BBPE_OK

\* The allocations a call with this document makes when none fails:
\*   "tok"            calloc of the handle;
\*   "byte_str"       malloc(5) in precompute_byte_strings (result not tested);
\*   "vocab"          the entries, their strings and id_to_token;
\*   "merges"         temp_records, counts, rule_rows and the rows' items;
\*   "node"           calloc of a pre-tokenizer node;
\*   "regex_pattern"  strdup of a Split node's pattern (result not tested);
\*   "added"          realloc of the arrays, the special entry and its string.
SitesReached(doc) ==
    IF ~doc.parse_ok THEN {}
    ELSE {"tok", "byte_str"}
         \cup (IF doc.has_vocab /\ Len(doc.vocab) > 0 THEN {"vocab"} ELSE {})
         \cup (IF doc.has_vocab /\ MaxId(doc.vocab) >= 0
               THEN {"merges"}
                    \cup {"node" : n \in {k \in 1..Len(NodeObjects(doc.pre_tokenizer)) :
                            /\ NodeReached(doc.pre_tokenizer, k)
                            /\ NodeObjects(doc.pre_tokenizer)[k].type # ""}}
                    \cup {"regex_pattern" :
                            n \in {k \in 1..Len(NodeObjects(doc.pre_tokenizer)) :
                            /\ NodeReached(doc.pre_tokenizer, k)
                            /\ NodeObjects(doc.pre_tokenizer)[k].type = "Split"
                            /\ NodeObjects(doc.pre_tokenizer)[k].has_regex}}
                    \cup (IF /\ ParsePreTokenizer(doc.pre_tokenizer).status = BBPE_OK
                             /\ doc.has_added /\ Len(doc.added_tokens) > 0
                          THEN {"added"} ELSE {})
               ELSE {})

\* The return of bbpe_init with outcome o: *out_tokenizer = tok only with BBPE_OK.
InitReturn(o) ==
    /\ init_status' = o.status
    /\ tok' = o.tok
    /\ out_tokenizer' = (o.status = BBPE_OK)
    /\ pc' = "ready"

\* The call stops inside bbpe_init: nothing is returned.
InitCrash ==
    /\ pc' = "crashed"
    /\ UNCHANGED <<init_status, tok, out_tokenizer>>

\* bbpe_init when the allocation at site returns NULL (o: the outcome without
\* a failure).  The tested allocations destroy the handle and return
\* BBPE_ERR_MEMORY.  A NULL from malloc(5) is written through by utf8_encode:
\* the store traps, or it does not and the call goes on.  A NULL from
\* strdup(regex) goes to pcre2_compile, which rejects a NULL pattern: the
\* node is freed and BBPE_ERR_REGEX_COMPILE returned.
InitWithFailure(site, o) ==
    IF site = "none" THEN InitReturn(o)
    ELSE IF site = "byte_str" THEN InitCrash \/ InitReturn(o)
    ELSE IF site = "regex_pattern" THEN InitReturn(InitFailure(BBPE_ERR_REGEX_COMPILE))
    ELSE InitReturn(InitFailure(BBPE_ERR_MEMORY))

BbpeInit ==
    /\ UNCHANGED concVars
    /\ pc = "start"
    /\ \E doc \in JsonDocs :
          /\ json' = doc
          /\ \E site \in {"none"} \cup SitesReached(doc), o \in InitOutcomes(doc) :
                /\ alloc_failed' = site
                /\ InitWithFailure(site, o)
    /\ UNCHANGED <<encVars, decVars>>

(***************************************************************************)
(* bbpe_encode(tokenizer, text, &out_output).                              *)
(***************************************************************************)
\* EncodeReturn without the call of bbpe_free_output on a failure.
EncodeReturnKeeps(status, output) ==
    /\ enc_status' = status
    /\ out_output' = output
    /\ segments' = <<>>
    /\ seg_i' = 0
    /\ pre_res' = <<>>
    /\ chunk_j' = 0
    /\ ids' = <<>>
    /\ pc' = "encoded"

\* The end of bbpe_encode: the segments are freed, and on a failure
\* bbpe_free_output(out_output) is called before the status is returned.
EncodeReturn(status, output) ==
    /\ enc_status' = status
    /\ out_output' = IF status # BBPE_OK THEN EmptyOutput ELSE output
    /\ segments' = <<>>
    /\ seg_i' = 0
    /\ pre_res' = <<>>
    /\ chunk_j' = 0
    /\ ids' = <<>>
    /\ pc' = "encoded"

\* AppendIds copying the new ids to the front of the array.
AppendIdsFront(output, new_ids) ==
    [ids_null |-> FALSE, ids |-> new_ids \o output.ids,
     count |-> output.count + Len(new_ids)]

\* out_accum after count += n and the realloc: the new ids follow the old.
AppendIds(output, new_ids) ==
    [ids_null |-> FALSE, ids |-> output.ids \o new_ids,
     count |-> output.count + Len(new_ids)]

\* out_accum after count += n when the realloc fails.
FailedAppend(output, new_ids) ==
    [output EXCEPT !.count = @ + Len(new_ids)]

\* Entry of bbpe_encode up to the loop over the segments.
EncodeBegin ==
    /\ UNCHANGED concVars
    /\ pc = "ready"
    /\ out_tokenizer
    /\ \E t \in Texts, alloc_ok \in BOOLEAN :
          /\ text' = t
          /\ merge_from' = <<>>
          /\ best_idx' = -1
          /\ IF alloc_ok
             THEN /\ segments' = extract_special_tokens(tok, t)
                  /\ out_output' = EmptyOutput
                  /\ seg_i' = 0
                  /\ pc' = "segment"
                  /\ UNCHANGED <<pre_res, chunk_j, ids, enc_status>>
             ELSE \* extract_special_tokens returned NULL: no cleanup is due
                  /\ enc_status' = BBPE_ERR_MEMORY
                  /\ out_output' = EmptyOutput
                  /\ pc' = "encoded"
                  /\ UNCHANGED <<segments, seg_i, pre_res, chunk_j, ids>>
    /\ UNCHANGED <<initVars, decVars>>

\* One pass of the loop over the segments, up to the loop over the chunks.
EncodeSegment ==
    /\ UNCHANGED concVars
    /\ pc = "segment"
    /\ seg_i < Len(segments)
    /\ \E alloc_ok \in BOOLEAN :
          IF segments[seg_i + 1].is_special = 1
          THEN IF alloc_ok
               THEN /\ out_output' = AppendIds(out_output, <<segments[seg_i + 1].special_id>>)
                    /\ seg_i' = seg_i + 1
                    /\ UNCHANGED <<pc, segments, pre_res, chunk_j, ids, enc_status>>
               ELSE EncodeReturn(BBPE_ERR_MEMORY,
                        FailedAppend(out_output, <<segments[seg_i + 1].special_id>>))
          ELSE IF alloc_ok
               THEN /\ pre_res' = pre_tokenize(tok, segments[seg_i + 1].text)
                    /\ chunk_j' = 0
                    /\ pc' = "chunk"
                    /\ UNCHANGED <<segments, seg_i, ids, out_output, enc_status>>
               ELSE EncodeReturn(BBPE_ERR_MEMORY, out_output)
    /\ UNCHANGED <<text, best_idx, merge_from, initVars, decVars>>

\* The loop over the segments is over: bbpe_encode returns.
EncodeFinish ==
    /\ UNCHANGED concVars
    /\ pc = "segment"
    /\ seg_i >= Len(segments)
    /\ EncodeReturn(BBPE_OK, out_output)
    /\ UNCHANGED <<text, best_idx, merge_from, initVars, decVars>>

\* The head of the loop over the chunks and the first phase of encode_chunk.
ChunkExpand ==
    /\ UNCHANGED concVars
    /\ pc = "chunk"
    /\ IF chunk_j >= Len(pre_res)
       THEN \* free_pre_tokenized(&pre_res), next segment
            /\ pre_res' = <<>>
            /\ chunk_j' = 0
            /\ seg_i' = seg_i + 1
            /\ pc' = "segment"
            /\ UNCHANGED <<segments, ids, out_output, enc_status>>
       ELSE IF Len(pre_res[chunk_j + 1]) = 0
       THEN \* encode_chunk returns BBPE_OK at once
            /\ chunk_j' = chunk_j + 1
            /\ UNCHANGED <<pc, segments, seg_i, pre_res, ids, out_output, enc_status>>
       ELSE \E alloc_ok \in BOOLEAN :
               LET e == ExpandBytes(tok, pre_res[chunk_j + 1])
               IN IF ~alloc_ok THEN EncodeReturn(BBPE_ERR_MEMORY, out_output)
                  ELSE IF e.status # BBPE_OK THEN EncodeReturn(e.status, out_output)
                  ELSE /\ ids' = e.ids
                       /\ pc' = "merge"
                       /\ UNCHANGED <<segments, seg_i, pre_res, chunk_j, out_output,
                                      enc_status>>
    /\ IF pc' = "merge"
       THEN best_idx' = -1 /\ merge_from' = <<>>
       ELSE UNCHANGED <<best_idx, merge_from>>
    /\ UNCHANGED <<text, initVars, decVars>>

\* One pass of the merge loop of encode_chunk that merges a pair.
MergeStep ==
    /\ UNCHANGED concVars
    /\ pc = "merge"
    /\ Len(ids) > 1
    /\ find_best_merge(ids, tok).best_idx # -1
    /\ best_idx' = find_best_merge(ids, tok).best_idx
    /\ merge_from' = ids
    /\ ids' = ApplyMerge(ids, find_best_merge(ids, tok).best_idx,
                         find_best_merge(ids, tok).new_id)
    /\ UNCHANGED <<pc, text, segments, seg_i, pre_res, chunk_j, out_output, enc_status,
                   initVars, decVars>>

\* The merge loop is over: the chunk's ids are appended to the output.
ChunkAppend ==
    /\ UNCHANGED concVars
    /\ pc = "merge"
    /\ Len(ids) <= 1 \/ find_best_merge(ids, tok).best_idx = -1
    /\ \E alloc_ok \in BOOLEAN :
          IF alloc_ok
          THEN /\ out_output' = AppendIds(out_output, ids)
               /\ ids' = <<>>
               /\ chunk_j' = chunk_j + 1
               /\ pc' = "chunk"
               /\ UNCHANGED <<segments, seg_i, pre_res, enc_status>>
          ELSE EncodeReturn(BBPE_ERR_MEMORY, FailedAppend(out_output, ids))
    /\ UNCHANGED <<text, best_idx, merge_from, initVars, decVars>>

(***************************************************************************)
(* bbpe_decode(tokenizer, ids, count, &out_text).                          *)
(***************************************************************************)
\* The return of bbpe_decode with result r.
DecodeReturn(r) ==
    /\ dec_status' = r.status
    /\ out_text' = IF r.written THEN [written |-> TRUE, text |-> r.text] ELSE out_text

\* The caller decodes what bbpe_encode gave it, as the driver does.
DecodeOutput ==
    /\ UNCHANGED concVars
    /\ pc = "encoded"
    /\ enc_status = BBPE_OK
    /\ dec_input' = out_output
    /\ \E malloc_ok \in BOOLEAN :
          DecodeReturn(bbpe_decode(tok, out_output.ids_null, out_output.ids,
                                   out_output.count, malloc_ok))
    /\ pc' = "decoded"
    /\ UNCHANGED <<initVars, encVars>>

\* The caller decodes an id list of its own.
DecodeIds ==
    /\ UNCHANGED concVars
    /\ pc = "ready"
    /\ out_tokenizer
    /\ \E input \in DecodeInputs, malloc_ok \in BOOLEAN :
          /\ dec_input' = [ids_null |-> FALSE, ids |-> input, count |-> Len(input)]
          /\ DecodeReturn(bbpe_decode(tok, FALSE, input, Len(input), malloc_ok))
    /\ pc' = "decoded_ids"
    /\ UNCHANGED <<initVars, encVars>>

Next ==
    \/ BbpeInit
    \/ EncodeBegin
    \/ EncodeSegment
    \/ EncodeFinish
    \/ ChunkExpand
    \/ MergeStep
    \/ ChunkAppend
    \/ DecodeOutput
    \/ DecodeIds

Spec == Init /\ [][Next]_vars

\* encode_chunk runs on once it was entered: a pass of the merge loop that
\* can be made is made, and so is the append after the loop.
SpecMerge == Init /\ [][Next]_vars /\ WF_vars(MergeStep) /\ WF_vars(ChunkAppend)

(***************************************************************************)
(* What the properties below compare the run with: the encoding written as *)
(* a function of the text, segment by segment and chunk by chunk.          *)
(***************************************************************************)
\* The merge loop of encode_chunk run to its end on ids.
RECURSIVE BpeResult(_, _)
BpeResult(t, i) ==
    IF Len(i) > 1 /\ find_best_merge(i, t).best_idx # -1
    THEN BpeResult(t, ApplyMerge(i, find_best_merge(i, t).best_idx,
                                 find_best_merge(i, t).new_id))
    ELSE i

\* The ids of one chunk, merged on its own.
ChunkIds(t, chunk) ==
    IF chunk = <<>> THEN <<>> ELSE BpeResult(t, ExpandBytes(t, chunk).ids)

\* The ids of the chunks of a list, in order.
ChunksIds(t, chunks) == Flatten([c \in 1..Len(chunks) |-> ChunkIds(t, chunks[c])])

\* The ids of one segment.
SegmentIds(t, seg) ==
    IF seg.is_special = 1 THEN <<seg.special_id>>
    ELSE ChunksIds(t, pre_tokenize(t, seg.text))

\* The ids of the segments of a list, in order.
SegmentsIds(t, segs) == Flatten([k \in 1..Len(segs) |-> SegmentIds(t, segs[k])])

\* The ids of a text.
EncodeIds(t, txt) == SegmentsIds(t, extract_special_tokens(t, txt))

\* The bytes a segment stands for: its text, or the content of its token.
SegmentBytes(t, seg) ==
    IF seg.is_special = 1 THEN t.id_to_token[seg.special_id] ELSE seg.text

\* The 0-based offset in the text at which segment k of segs starts.
SegmentStart(t, segs, k) ==
    Len(Flatten([j \in 1..(k - 1) |-> SegmentBytes(t, segs[j])]))

\* The registered special tokens (their contents) that match txt at offset p.
SpecialsAt(t, txt, p) ==
    {k \in 1..Len(t.special_tokens_map) :
        /\ Len(t.special_tokens_map[k].token) > 0
        /\ MatchesAt(txt, p, t.special_tokens_map[k].token)}

\* No registered special token occurs in txt.
NoSpecialIn(t, txt) == \A p \in 0..(Len(txt) - 1) : SpecialsAt(t, txt, p) = {}

\* The chain has no ByteLevel node that adds a prefix space.
NoPrefixSpace(t) ==
    \A n \in 1..Len(t.pre_tokenizers) :
        t.pre_tokenizers[n].type = "BYTE_LEVEL" => ~t.pre_tokenizers[n].add_prefix_space

\* Every vocabulary token is the string id_to_token holds at its id: the ids
\* are within the array and no two tokens share one.
VocabInvertible(t) ==
    \A x \in 1..Len(t.vocab_map) :
        /\ t.vocab_map[x].id \in 0..(t.vocab_size - 1)
        /\ t.id_to_token[t.vocab_map[x].id] = t.vocab_map[x].token

\* Every registered special token consists of printable ASCII characters.
AsciiSpecials(t) ==
    \A k \in 1..Len(t.special_tokens_map) :
        \A c \in 1..Len(t.special_tokens_map[k].token) :
            t.special_tokens_map[k].token[c] \in 33..126

\* The round trip gave the text back.
RoundTripOk == dec_status = BBPE_OK /\ out_text.written /\ out_text.text = text

C2_AsClaimed ==
    (/\ pc = "decoded"
     /\ \E k \in 1..Len(tok.special_tokens_map) : tok.special_tokens_map[k].token = text
     /\ dec_status # BBPE_ERR_MEMORY)
        => RoundTripOk

(***************************************************************************)
(* C3.  A text in which special tokens (of printable ASCII, as the         *)
(* driver's) and ordinary text alternate, all bytes of which have          *)
(* vocabulary tokens, is encoded with BBPE_OK and decoded to itself, for   *)
(* a tokenizer as the driver loads (every vocabulary token stored at its   *)
(* id, no prefix space); failing allocations set aside.                    *)
(***************************************************************************)
\* The text mixes ordinary text with special tokens.
MixedText(t, txt) ==
    LET segs == extract_special_tokens(t, txt)
    IN /\ \E k \in 1..Len(segs) : segs[k].is_special = 1
       /\ \E k \in 1..Len(segs) : segs[k].is_special = 0

\* Every byte of txt has a vocabulary token.
BytesKnown(t, txt) == \A k \in 1..Len(txt) : ByteTokenId(t, txt[k]) # -1

C3_MixedRoundTrip ==
    (/\ pc \in {"encoded", "decoded"}
     /\ MixedText(tok, text)
     /\ BytesKnown(tok, text)
     /\ AsciiSpecials(tok) /\ VocabInvertible(tok) /\ NoPrefixSpace(tok))
        => /\ enc_status \in {BBPE_OK, BBPE_ERR_MEMORY}
           /\ (pc = "decoded" /\ dec_status # BBPE_ERR_MEMORY) => RoundTripOk

\* The driver's text went round: a two-byte character, the special token,
\* a stray '<' and the special token again.
C3_Witness ==
    /\ pc = "decoded"
    /\ text = DriverText
    /\ AsciiSpecials(tok) /\ VocabInvertible(tok) /\ NoPrefixSpace(tok)
    /\ Cardinality({k \in 1..Len(dec_input.ids) : dec_input.ids[k] = 11}) = 2
    /\ RoundTripOk

(***************************************************************************)
(* C4.  Every merge step merges the pair whose rule has the smallest       *)
(* priority among the adjacent pairs that have a rule, and of the pairs    *)
(* with that priority the leftmost one.                                    *)
(***************************************************************************)
\* The pairs of i (by the C index of their left id) that have a rule.
PairsWithRule(t, i) ==
    {x \in 0..(Len(i) - 2) : find_merge_rule(t, i[x + 1], i[x + 2]).found = 1}

PairPriority(t, i, x) == find_merge_rule(t, i[x + 1], i[x + 2]).priority

C4_LeftmostLowestPriority ==
    merge_from # <<>> =>
        /\ best_idx \in PairsWithRule(tok, merge_from)
        /\ \A x \in PairsWithRule(tok, merge_from) :
              /\ PairPriority(tok, merge_from, best_idx) <= PairPriority(tok, merge_from, x)
              /\ PairPriority(tok, merge_from, x) = PairPriority(tok, merge_from, best_idx)
                    => best_idx <= x
        /\ pc = "merge" =>
              /\ Len(ids) = Len(merge_from) - 1
              /\ ids[best_idx + 1] =
                    find_merge_rule(tok, merge_from[best_idx + 1],
                                    merge_from[best_idx + 2]).new_id
              /\ \A k \in 1..Len(ids) :
                    k # best_idx + 1 =>
                        ids[k] = IF k <= best_idx THEN merge_from[k] ELSE merge_from[k + 1]

\* A merge was made where the same priority applied at two places.
C4_Witness ==
    /\ pc = "merge"
    /\ merge_from # <<>>
    /\ \E x \in PairsWithRule(tok, merge_from) :
          /\ x > best_idx
          /\ PairPriority(tok, merge_from, x) = PairPriority(tok, merge_from, best_idx)

(***************************************************************************)
(* C5.  As claimed: wherever a registered special token with id i occurs   *)
(* in a text, text = x s y, the ids of the text are the ids of x alone,    *)
(* then i, then the ids of y alone.                                        *)
(***************************************************************************)
\* What C5 says of the occurrence of special-token entry k at offset p.
SplitsAt(t, txt, p, k, out) ==
    out = EncodeIds(t, Slice(txt, 0, p))
            \o <<t.special_tokens_map[k].id>>
            \o EncodeIds(t, Slice(txt, p + Len(t.special_tokens_map[k].token), Len(txt)))

C5_AsClaimed ==
    (pc = "encoded" /\ enc_status = BBPE_OK) =>
        \A p \in 0..(Len(text) - 1) :
            \A k \in SpecialsAt(tok, text, p) : SplitsAt(tok, text, p, k, out_output.ids)

(***************************************************************************)
(* C5, amended.  The same for the occurrences the scan can take: those of  *)
(* a token that is the longest registered one matching at its offset, and  *)
(* that no registered token matching at an earlier offset reaches into.    *)
(***************************************************************************)
\* No special token matching before offset p extends beyond p.
NotOverlapped(t, txt, p) ==
    \A q \in 0..(p - 1) :
        \A k \in SpecialsAt(t, txt, q) : q + Len(t.special_tokens_map[k].token) <= p

\* Entry k is the longest of the special tokens matching at offset p.
LongestAt(t, txt, p, k) ==
    \A j \in SpecialsAt(t, txt, p) :
        Len(t.special_tokens_map[j].token) <= Len(t.special_tokens_map[k].token)

C5_SpecialSplits ==
    (pc = "encoded" /\ enc_status = BBPE_OK) =>
        \A p \in 0..(Len(text) - 1) :
            \A k \in SpecialsAt(tok, text, p) :
                (NotOverlapped(tok, text, p) /\ LongestAt(tok, text, p, k))
                    => SplitsAt(tok, text, p, k, out_output.ids)

\* A special token was met between two pieces of ordinary text and the
\* three parts were encoded apart.
C5_Witness ==
    /\ pc = "encoded" /\ enc_status = BBPE_OK
    /\ \E p \in 1..(Len(text) - 1) :
          \E k \in SpecialsAt(tok, text, p) :
              /\ NotOverlapped(tok, text, p) /\ LongestAt(tok, text, p, k)
              /\ p + Len(tok.special_tokens_map[k].token) < Len(text)
              /\ SplitsAt(tok, text, p, k, out_output.ids)

(***************************************************************************)
(* C6.  Every special segment stands where its token matches the text and  *)
(* no registered token matching there is longer, and no registered token   *)
(* matches at any offset inside a normal segment.                          *)
(***************************************************************************)
C6_LongestMatch ==
    pc \in {"segment", "chunk", "merge"} =>
        \A s \in 1..Len(segments) :
            LET p == SegmentStart(tok, segments, s)
            IN IF segments[s].is_special = 1
               THEN /\ MatchesAt(text, p, tok.id_to_token[segments[s].special_id])
                    /\ \A j \in SpecialsAt(tok, text, p) :
                          Len(tok.special_tokens_map[j].token)
                              <= Len(tok.id_to_token[segments[s].special_id])
               ELSE \A q \in p..(p + Len(segments[s].text) - 1) :
                        SpecialsAt(tok, text, q) = {}

\* Two registered tokens matched at one offset and the longer was taken.
C6_Witness ==
    /\ pc = "segment"
    /\ \E s \in 1..Len(segments) :
          /\ segments[s].is_special = 1
          /\ \E j \in SpecialsAt(tok, text, SegmentStart(tok, segments, s)) :
                Len(tok.special_tokens_map[j].token)
                    < Len(tok.id_to_token[segments[s].special_id])

(***************************************************************************)
(* C7.  The segments cover the text: their bytes (a normal segment's text, *)
(* a special segment's token), in order, are the text.                     *)
(***************************************************************************)
C7_SegmentsCoverText ==
    pc \in {"segment", "chunk", "merge"} =>
        Flatten([s \in 1..Len(segments) |-> SegmentBytes(tok, segments[s])]) = text

\* A text was cut into normal and special segments, three at least.
C7_Witness ==
    /\ pc = "segment"
    /\ Len(segments) >= 3
    /\ \E s \in 1..Len(segments) : segments[s].is_special = 1
    /\ \E s \in 1..Len(segments) : segments[s].is_special = 0 /\ Len(segments[s].text) > 1
    /\ Flatten([s \in 1..Len(segments) |-> SegmentBytes(tok, segments[s])]) = text

(***************************************************************************)
(* C8.  The output is the ids of the segments in order, a normal segment   *)
(* giving the ids of its chunks in order, each chunk merged on its own:    *)
(* nothing is merged across two chunks or two segments.                    *)
(***************************************************************************)
\* The ids due when the first n segments and then the first c chunks of the
\* next segment are done.
IdsSoFar(n, c) ==
    SegmentsIds(tok, SubSeq(segments, 1, n)) \o ChunksIds(tok, SubSeq(pre_res, 1, c))

C8_ConcatenationInOrder ==
    /\ pc = "segment" => out_output.ids = IdsSoFar(seg_i, 0)
    /\ pc \in {"chunk", "merge"} =>
          /\ pre_res = pre_tokenize(tok, segments[seg_i + 1].text)
          /\ out_output.ids = IdsSoFar(seg_i, chunk_j)
    /\ pc = "merge" => BpeResult(tok, ids) = ChunkIds(tok, pre_res[chunk_j + 1])
    /\ (pc = "encoded" /\ enc_status = BBPE_OK) =>
          /\ out_output.ids = EncodeIds(tok, text)
          /\ out_output.count = Len(out_output.ids)

\* Two ids that a rule would merge ended side by side in the output, one
\* from each of two chunks.
C8_Witness ==
    /\ pc = "encoded" /\ enc_status = BBPE_OK
    /\ out_output.ids = EncodeIds(tok, text)
    /\ \E k \in 1..(Len(out_output.ids) - 1) :
          find_merge_rule(tok, out_output.ids[k], out_output.ids[k + 1]).found = 1

(***************************************************************************)
(* C9.  bbpe_encode of the empty text returns BBPE_OK and no ids (count 0) *)
(* unless its allocation fails, and bbpe_decode with count 0 returns       *)
(* BBPE_ERR_INVALID_INPUT and writes no text.                              *)
(***************************************************************************)
C9_EmptyInputs ==
    /\ (pc \in {"encoded", "decoded"} /\ text = <<>>) =>
          \/ enc_status = BBPE_OK /\ out_output.count = 0 /\ out_output.ids = <<>>
          \/ enc_status = BBPE_ERR_MEMORY
    /\ (pc \in {"decoded", "decoded_ids"} /\ dec_input.count = 0) =>
          dec_status = BBPE_ERR_INVALID_INPUT /\ ~out_text.written

\* The empty text was encoded and its empty id list handed to bbpe_decode.
C9_Witness ==
    /\ pc = "decoded"
    /\ text = <<>>
    /\ enc_status = BBPE_OK /\ out_output.count = 0
    /\ dec_input.count = 0
    /\ dec_status = BBPE_ERR_INVALID_INPUT

(***************************************************************************)
(* C10.  A failing call hands back nothing: after a failing bbpe_encode    *)
(* out_output has ids = NULL and count = 0, a failing bbpe_decode has not  *)
(* written *out_text and a failing bbpe_init has not written               *)
(* *out_tokenizer.                                                         *)
(***************************************************************************)
C10_NoPartialResult ==
    /\ enc_status # BBPE_OK => out_output = EmptyOutput
    /\ dec_status # BBPE_OK => ~out_text.written
    /\ init_status # BBPE_OK => ~out_tokenizer

\* bbpe_encode failed on a byte without a token after it had put the id of
\* a special token into the output.
C10_Witness ==
    /\ pc = "encoded"
    /\ enc_status = BBPE_ERR_TOKEN_NOT_FOUND
    /\ Len(extract_special_tokens(tok, text)) > 1
    /\ extract_special_tokens(tok, text)[1].is_special = 1
    /\ out_output = EmptyOutput

(***************************************************************************)
(* C11.  As claimed: whichever allocation of bbpe_init fails, the call     *)
(* returns BBPE_ERR_MEMORY, hands back no handle and has destroyed what it *)
(* built; it neither stops on a null pointer nor returns another status.   *)
(***************************************************************************)
C11_AsClaimed ==
    alloc_failed # "none" =>
        /\ pc # "crashed"
        /\ init_status = BBPE_ERR_MEMORY
        /\ ~out_tokenizer
        /\ tok = NoTokenizer

(***************************************************************************)
(* Callers running bbpe_encode and bbpe_decode on one handle at the same   *)
(* time.  Each call keeps its segments, chunks and output in its own       *)
(* locals and its working array of ids in an array of its own (the malloc  *)
(* at the head of encode_chunk); the handle is only read.  Allocations do  *)
(* not fail here.                                                          *)
(***************************************************************************)
\* The texts and the id lists the callers pass.
ConcTexts == {<<97, 97, 98>>, <<97, 32, 98>>, <<60, 97, 98>>}

ConcIds == {<<7, 12, 2>>, <<8, 0>>}

\* The array in which the call of caller t keeps the ids of its chunk.
ScratchShared(t) == 1

ScratchSlot(t) == t

\* A step of caller t was taken while another caller was inside a call.
Overlaps(t) ==
    calls[t].overlapped
        \/ \E u \in Threads \ {t} : calls[u].pc \notin {"idle", "done"}

\* Caller t goes on with the locals c.
CallGoesOn(t, c) ==
    calls' = [calls EXCEPT ![t] = [c EXCEPT !.overlapped = Overlaps(t)]]

\* Caller t enters bbpe_encode: the text is cut into segments.
ConcEncodeBegin(t) ==
    /\ pc = "ready" /\ out_tokenizer
    /\ calls[t].pc = "idle"
    /\ \E txt \in ConcTexts :
          CallGoesOn(t, [calls[t] EXCEPT !.pc = "segment", !.text = txt,
                            !.segments = extract_special_tokens(tok, txt)])
    /\ UNCHANGED <<pc, initVars, encVars, decVars, scratch>>

\* The head of the segment loop of caller t's bbpe_encode.
ConcEncodeSegment(t) ==
    /\ calls[t].pc = "segment"
    /\ LET c == calls[t]
       IN IF c.seg_i >= Len(c.segments)
          THEN CallGoesOn(t, [c EXCEPT !.pc = "done", !.status = BBPE_OK])
          ELSE IF c.segments[c.seg_i + 1].is_special = 1
          THEN CallGoesOn(t, [c EXCEPT
                    !.out_ids = Append(@, c.segments[c.seg_i + 1].special_id),
                    !.seg_i = @ + 1])
          ELSE CallGoesOn(t, [c EXCEPT
                    !.pre_res = pre_tokenize(tok, c.segments[c.seg_i + 1].text),
                    !.chunk_j = 0, !.pc = "chunk"])
    /\ UNCHANGED <<pc, initVars, encVars, decVars, scratch>>

\* The head of the chunk loop and the expansion of the chunk's bytes.
ConcChunkExpand(t) ==
    /\ calls[t].pc = "chunk"
    /\ LET c == calls[t]
       IN IF c.chunk_j >= Len(c.pre_res)
          THEN /\ CallGoesOn(t, [c EXCEPT !.pre_res = <<>>, !.chunk_j = 0,
                                    !.seg_i = @ + 1, !.pc = "segment"])
               /\ UNCHANGED scratch
          ELSE IF Len(c.pre_res[c.chunk_j + 1]) = 0
          THEN /\ CallGoesOn(t, [c EXCEPT !.chunk_j = @ + 1])
               /\ UNCHANGED scratch
          ELSE LET e == ExpandBytes(tok, c.pre_res[c.chunk_j + 1])
               IN IF e.status # BBPE_OK
                  THEN /\ CallGoesOn(t, [c EXCEPT !.pc = "done", !.status = e.status,
                                            !.out_ids = <<>>])
                       /\ UNCHANGED scratch
                  ELSE /\ CallGoesOn(t, [c EXCEPT !.pc = "merge"])
                       /\ scratch' = [scratch EXCEPT ![ScratchSlot(t)] = e.ids]
    /\ UNCHANGED <<pc, initVars, encVars, decVars>>

\* One pass of the merge loop, or its end and the append to the output.
ConcMergeStep(t) ==
    /\ calls[t].pc = "merge"
    /\ LET c == calls[t]
           i == scratch[ScratchSlot(t)]
           m == find_best_merge(i, tok)
       IN IF Len(i) > 1 /\ m.best_idx # -1
          THEN /\ scratch' = [scratch EXCEPT
                                 ![ScratchSlot(t)] = ApplyMerge(i, m.best_idx, m.new_id)]
               /\ CallGoesOn(t, c)
          ELSE /\ CallGoesOn(t, [c EXCEPT !.out_ids = @ \o i, !.chunk_j = @ + 1,
                                    !.pc = "chunk"])
               /\ UNCHANGED scratch
    /\ UNCHANGED <<pc, initVars, encVars, decVars>>

\* Caller t enters bbpe_decode with an id list of its own.
ConcDecodeBegin(t) ==
    /\ pc = "ready" /\ out_tokenizer
    /\ calls[t].pc = "idle"
    /\ \E i \in ConcIds : CallGoesOn(t, [calls[t] EXCEPT !.pc = "decode", !.in_ids = i])
    /\ UNCHANGED <<pc, initVars, encVars, decVars, scratch>>

\* The two passes of caller t's bbpe_decode.
ConcDecode(t) ==
    /\ calls[t].pc = "decode"
    /\ LET r == bbpe_decode(tok, FALSE, calls[t].in_ids, Len(calls[t].in_ids), TRUE)
       IN CallGoesOn(t, [calls[t] EXCEPT !.pc = "done", !.status = r.status,
                            !.out_text = IF r.written THEN r.text ELSE <<>>])
    /\ UNCHANGED <<pc, initVars, encVars, decVars, scratch>>

NextConc ==
    \/ BbpeInit
    \/ \E t \in Threads : ConcEncodeBegin(t)
    \/ \E t \in Threads : ConcEncodeSegment(t)
    \/ \E t \in Threads : ConcChunkExpand(t)
    \/ \E t \in Threads : ConcMergeStep(t)
    \/ \E t \in Threads : ConcDecodeBegin(t)
    \/ \E t \in Threads : ConcDecode(t)

SpecConc == Init /\ [][NextConc]_vars

\* What bbpe_encode returns for txt when it runs alone: [status, ids].
EncodeAlone(t, txt) ==
    LET segs == extract_special_tokens(t, txt)
        fails == \E s \in 1..Len(segs) :
                    /\ segs[s].is_special = 0
                    /\ \E c \in 1..Len(pre_tokenize(t, segs[s].text)) :
                          /\ pre_tokenize(t, segs[s].text)[c] # <<>>
                          /\ ExpandBytes(t, pre_tokenize(t, segs[s].text)[c]).status
                                # BBPE_OK
    IN IF fails THEN [status |-> BBPE_ERR_TOKEN_NOT_FOUND, ids |-> <<>>]
       ELSE [status |-> BBPE_OK, ids |-> EncodeIds(t, txt)]

\* The call of caller t has returned what the same call returns alone.
ReturnedAsAlone(t) ==
    IF calls[t].in_ids = <<>>
    THEN /\ calls[t].status = EncodeAlone(tok, calls[t].text).status
         /\ calls[t].out_ids = EncodeAlone(tok, calls[t].text).ids
    ELSE LET r == bbpe_decode(tok, FALSE, calls[t].in_ids, Len(calls[t].in_ids), TRUE)
         IN /\ calls[t].status = r.status
            /\ calls[t].out_text = (IF r.written THEN r.text ELSE <<>>)

PrintableBytes == (33..126) \cup (161..172) \cup (174..255)

\* What the claim says of the two tables.
AlphabetIsBijection ==
    /\ \A b \in 0..255 : byte_to_unicode[b] \in 0..511
    /\ \A b, c \in 0..255 : b # c => byte_to_unicode[b] # byte_to_unicode[c]
    /\ \A b \in PrintableBytes : byte_to_unicode[b] = b
    /\ Cardinality((0..255) \ PrintableBytes) = 68
    /\ {byte_to_unicode[b] : b \in (0..255) \ PrintableBytes} = 256..323
    /\ \A b, c \in (0..255) \ PrintableBytes :
          b < c => byte_to_unicode[b] < byte_to_unicode[c]
    /\ \A b \in 0..255 : unicode_to_byte[byte_to_unicode[b]] = b

C13_ByteAlphabet == out_tokenizer => AlphabetIsBijection

\* A handle was loaded and a text with a space, a byte that is not mapped to
\* itself, went through the alphabet and back.
C13_Witness ==
    /\ out_tokenizer
    /\ pc = "decoded"
    /\ \E k \in 1..Len(text) : text[k] \notin PrintableBytes
    /\ NoPrefixSpace(tok) /\ VocabInvertible(tok)
    /\ RoundTripOk
    /\ AlphabetIsBijection

(***************************************************************************)
(* C14.  A RegexSplit node loses and adds no byte: for every chunk the     *)
(* chain hands to it, the chunks it returns, in order, concatenate to that *)
(* chunk, and when its pattern matches nowhere in the chunk it returns the *)
(* chunk as the only one.                                                  *)
(***************************************************************************)
\* The chunks the chain hands to its node n for the segment text txt.
NodeInputs(t, n, txt) == RunChain(SubSeq(t.pre_tokenizers, 1, n - 1), 1, <<txt>>)

\* The pattern matches nowhere in chunk c.
NeverMatches(pattern, c) ==
    \A offset \in 0..(Len(c) - 1) : pcre2_match(pattern, c, offset).rc < 0

\* What C14 says of node n and the segment text txt.
SplitPreserves(t, n, txt) ==
    \A k \in 1..Len(NodeInputs(t, n, txt)) :
        LET c == NodeInputs(t, n, txt)[k]
            out == apply_single_pre_tokenizer(t.pre_tokenizers[n], c)
        IN /\ Flatten(out) = c
           /\ NeverMatches(t.pre_tokenizers[n].regex_pattern, c) => out = <<c>>

C14_RegexSplitPreserves ==
    pc \in {"chunk", "merge"} =>
        /\ pre_res = RunChain(tok.pre_tokenizers, 1, <<segments[seg_i + 1].text>>)
        /\ \A n \in 1..Len(tok.pre_tokenizers) :
              tok.pre_tokenizers[n].type = "REGEX_SPLIT"
                  => SplitPreserves(tok, n, segments[seg_i + 1].text)

\* A segment was split at a run of spaces into text, match and text.
C14_Witness ==
    /\ pc = "chunk"
    /\ Len(tok.pre_tokenizers) > 0
    /\ tok.pre_tokenizers[1].type = "REGEX_SPLIT"
    /\ LET out == apply_single_pre_tokenizer(tok.pre_tokenizers[1],
                                             segments[seg_i + 1].text)
       IN /\ Len(out) = 3
          /\ out[2][1] = 32
          /\ Flatten(out) = segments[seg_i + 1].text

(***************************************************************************)
(* C15.  A merge rule whose left token, right token or concatenation is    *)
(* not in the vocabulary does not keep the JSON from loading, leaves no    *)
(* item in the merge table, and changes no encoding: the handle has the    *)
(* merge table, and bbpe_encode the result, of the same JSON without that  *)
(* rule.                                                                   *)
(***************************************************************************)
\* Element k of the merges names a token the vocabulary does not have.
UnknownRule(doc, k) ==
    LET sp == SplitMergeItem(doc.merges[k])
    IN /\ sp.ok
       /\ \/ HashFind(doc.vocab, sp.l) = 0
          \/ HashFind(doc.vocab, sp.r) = 0
          \/ HashFind(doc.vocab, sp.l \o sp.r) = 0

\* The document without element k of its merges.
WithoutRule(doc, k) ==
    [doc EXCEPT !.merges = SubSeq(@, 1, k - 1) \o SubSeq(@, k + 1, Len(@))]

\* The items of all rows of a merge table.
TableSize(rows) == Len(Flatten(rows))

C15_UnknownMergeDropped ==
    (/\ pc \in {"ready", "encoded"}
     /\ alloc_failed = "none"
     /\ json.parse_ok /\ json.has_vocab /\ json.has_merges)
        => \A k \in 1..Len(json.merges) :
              UnknownRule(json, k) =>
                  /\ init_status \in {o.status : o \in InitOutcomes(WithoutRule(json, k))}
                  /\ init_status = BBPE_OK =>
                        /\ TableSize(tok.rule_rows)
                              = Cardinality({j \in 1..Len(json.merges) :
                                    /\ SplitMergeItem(json.merges[j]).ok
                                    /\ ~UnknownRule(json, j)})
                        /\ \E o \in InitOutcomes(WithoutRule(json, k)) :
                              /\ o.tok.rule_rows = tok.rule_rows
                              /\ o.tok = [tok EXCEPT !.merge_count = @ - 1]
                              /\ (pc = "encoded" /\ enc_status # BBPE_ERR_MEMORY) =>
                                    /\ enc_status = EncodeAlone(o.tok, text).status
                                    /\ out_output.ids = EncodeAlone(o.tok, text).ids

\* A JSON with an unknown rule before known ones was loaded and a text was
\* encoded with a merge by a rule that stands after the unknown one.
C15_Witness ==
    /\ pc = "encoded" /\ enc_status = BBPE_OK
    /\ init_status = BBPE_OK
    /\ json.has_merges
    /\ \E k \in 1..Len(json.merges) :
          /\ UnknownRule(json, k)
          /\ \E o \in InitOutcomes(WithoutRule(json, k)) :
                out_output.ids = EncodeAlone(o.tok, text).ids
    /\ \E x \in 1..Len(out_output.ids) : out_output.ids[x] \in {9, 10}

(***************************************************************************)
(* C16.  bbpe_init drops no pre-tokenizer node silently.  When the         *)
(* vocabulary has loaded and no allocation fails: if a node (the top-level *)
(* pre_tokenizer or an element of a Sequence) cannot be handled, bbpe_init *)
(* fails and returns no handle, with BBPE_ERR_UNSUPPORTED_TYPE when the    *)
(* first such node has a type other than ByteLevel and Split and with      *)
(* BBPE_ERR_REGEX_COMPILE when it is a Split whose pattern does not        *)
(* compile; and a handle that is returned has one node per JSON node.      *)
(***************************************************************************)
\* bbpe_init can build a node from this JSON node.
Handled(obj) ==
    \/ obj.type = "ByteLevel"
    \/ obj.type = "Split" /\ obj.has_regex /\ pcre2_compile(obj.regex)

\* The place of the first node that cannot be handled (0: there is none).
FirstUnhandled(nodes) ==
    LET bad == {k \in 1..Len(nodes) : ~Handled(nodes[k])}
    IN IF bad = {} THEN 0 ELSE CHOOSE k \in bad : \A j \in bad : k <= j

\* The type a JSON node becomes in the chain.
NodeTypeOf(obj) == IF obj.type = "ByteLevel" THEN "BYTE_LEVEL" ELSE "REGEX_SPLIT"

C16_NoNodeDropped ==
    (/\ pc \notin {"start", "crashed"}
     /\ alloc_failed = "none"
     /\ json.parse_ok /\ json.has_vocab /\ MaxId(json.vocab) >= 0)
        => LET nodes == NodeObjects(json.pre_tokenizer)
               f == FirstUnhandled(nodes)
           IN /\ f # 0 =>
                    /\ init_status # BBPE_OK
                    /\ ~out_tokenizer
                    /\ tok = NoTokenizer
                    /\ nodes[f].type \notin {"", "ByteLevel", "Split"}
                          => init_status = BBPE_ERR_UNSUPPORTED_TYPE
                    /\ (nodes[f].type = "Split" /\ nodes[f].has_regex)
                          => init_status = BBPE_ERR_REGEX_COMPILE
              /\ init_status = BBPE_OK =>
                    /\ Len(tok.pre_tokenizers) = Len(nodes)
                    /\ \A k \in 1..Len(nodes) :
                          tok.pre_tokenizers[k].type = NodeTypeOf(nodes[k])

\* A Sequence whose second element has an unknown type was refused.
C16_Witness ==
    /\ pc = "ready"
    /\ alloc_failed = "none"
    /\ json.parse_ok /\ json.has_vocab
    /\ FirstUnhandled(NodeObjects(json.pre_tokenizer)) = 2
    /\ init_status = BBPE_ERR_UNSUPPORTED_TYPE
    /\ ~out_tokenizer

(***************************************************************************)
(* C17.  As claimed: in every merge row of a loaded handle the right ids   *)
(* are strictly ascending, whatever the merges list holds.                 *)
(***************************************************************************)
C17_AsClaimed ==
    out_tokenizer =>
        \A left \in 1..Len(tok.rule_rows) :
            \A i \in 1..(Len(tok.rule_rows[left]) - 1) :
                tok.rule_rows[left][i].right_id < tok.rule_rows[left][i + 1].right_id

(***************************************************************************)
(* C18.  As claimed: the item stored for element k of the JSON merges      *)
(* list (counted from 0) has priority k, also when elements before it were *)
(* skipped.                                                                *)
(***************************************************************************)
\* Element k of the merges gives a record: it is well formed and its three
\* strings are vocabulary tokens.
Survives(doc, k) ==
    /\ SplitMergeItem(doc.merges[k]).ok
    /\ ~UnknownRule(doc, k)
    /\ Len(SplitMergeItem(doc.merges[k]).l) + Len(SplitMergeItem(doc.merges[k]).r)
          < STRING_TEMP_SIZE + 1

\* The vocabulary id of a token string of the document.
VocabId(doc, str) == doc.vocab[HashFind(doc.vocab, str)].id

C18_AsClaimed ==
    (out_tokenizer /\ json.has_merges) =>
        \A k \in 1..Len(json.merges) :
            Survives(json, k) =>
                LET sp == SplitMergeItem(json.merges[k])
                    row == tok.rule_rows[VocabId(json, sp.l) + 1]
                IN \E x \in 1..Len(row) :
                      /\ row[x].right_id = VocabId(json, sp.r)
                      /\ row[x].new_id = VocabId(json, sp.l \o sp.r)
                      /\ row[x].priority = k - 1

(***************************************************************************)
(* C19.  As claimed: for every merge (L, R) -> N in the merge table of a   *)
(* loaded handle, L, R and N are inside the id-indexed array and the text  *)
(* stored at N is the text stored at L followed by the text stored at R.   *)
(***************************************************************************)
\* What C19 says of the item at place x of the row of left id L.
ClosedItem(t, L, x) ==
    LET item == t.rule_rows[L + 1][x]
    IN /\ L \in 0..(t.vocab_size - 1)
       /\ item.right_id \in 0..(t.vocab_size - 1)
       /\ item.new_id \in 0..(t.vocab_size - 1)
       /\ t.id_to_token[item.new_id]
             = t.id_to_token[L] \o t.id_to_token[item.right_id]

\* What C19 says of the handle t.
VocabularyClosed(t) ==
    \A L \in 0..(Len(t.rule_rows) - 1) :
        \A x \in 1..Len(t.rule_rows[L + 1]) : ClosedItem(t, L, x)

C19_AsClaimed == out_tokenizer => VocabularyClosed(tok)

(***************************************************************************)
(* C19, amended.  The same when the vocabulary of the JSON gives its       *)
(* tokens ids that are non-negative and all different.                     *)
(***************************************************************************)
\* The vocabulary's ids are non-negative and no two tokens share one.
DistinctIds(vocab) ==
    /\ \A x \in 1..Len(vocab) : vocab[x].id >= 0
    /\ \A x, y \in 1..Len(vocab) : x # y => vocab[x].id # vocab[y].id

C19_VocabularyClosure ==
    (out_tokenizer /\ DistinctIds(json.vocab)) => VocabularyClosed(tok)

\* A handle was loaded whose table holds a merge of a merged token, and
\* whose added_tokens name an id the vocabulary holds.
C19_Witness ==
    /\ out_tokenizer
    /\ DistinctIds(json.vocab)
    /\ \E L \in 0..(Len(tok.rule_rows) - 1) :
          /\ Len(tok.id_to_token[L]) > 1
          /\ Len(tok.rule_rows[L + 1]) > 0
          /\ ClosedItem(tok, L, 1)
    /\ json.has_added
    /\ \E k \in 1..Len(json.added_tokens) :
          \E x \in 1..Len(json.vocab) : json.vocab[x].id = json.added_tokens[k].id
    /\ VocabularyClosed(tok)

(***************************************************************************)
(* C20.  Every step of the merge loop replaces one adjacent pair that has  *)
(* a rule by the rule's new id (ids[i] becomes the new id, ids[i+1] is     *)
(* removed, the other ids keep their order), and the loop ends, and the    *)
(* chunk's ids are appended to the output, only when no two adjacent ids   *)
(* have a rule.                                                            *)
(***************************************************************************)
\* The items of the merge table for the pair (l, r).
RulesFor(t, l, r) ==
    IF l \in 0..(t.vocab_size - 1)
    THEN {t.rule_rows[l + 1][x] : x \in {y \in 1..Len(t.rule_rows[l + 1]) :
                                          t.rule_rows[l + 1][y].right_id = r}}
    ELSE {}

\* No two adjacent ids of i have a rule.
NoRuleLeft(t, i) == \A x \in 1..(Len(i) - 1) : RulesFor(t, i[x], i[x + 1]) = {}

\* after is before with one pair that has a rule replaced by the new id.
OnePairMerged(t, before, after) ==
    \E x \in 1..(Len(before) - 1) :
        \E item \in RulesFor(t, before[x], before[x + 1]) :
            after = SubSeq(before, 1, x - 1) \o <<item.new_id>>
                        \o SubSeq(before, x + 2, Len(before))

C20_MergeUntilNoRule ==
    [][/\ (pc = "merge" /\ pc' = "merge") => OnePairMerged(tok, ids, ids')
       /\ (pc = "merge" /\ pc' = "chunk") =>
             /\ NoRuleLeft(tok, ids)
             /\ out_output'.ids = out_output.ids \o ids]_vars

\* A chunk of three ids or more was merged and finished with two ids or
\* more, none of them mergeable with its neighbour.
C20_Witness ==
    /\ pc = "chunk"
    /\ chunk_j >= 1
    /\ Len(merge_from) >= 3
    /\ Len(out_output.ids) >= Len(merge_from) - 1
    /\ NoRuleLeft(tok, SubSeq(out_output.ids,
                              Len(out_output.ids) - Len(merge_from) + 2,
                              Len(out_output.ids)))

(***************************************************************************)
(* C21.  As claimed: bbpe_decode turns every code-point of a token string  *)
(* that is the image B(b) of a byte b, U+0100 = B(0) included, into the    *)
(* single byte b, and copies the UTF-8 bytes of every other code-point.    *)
(***************************************************************************)
\* The bytes the claim gives for token string s from offset p on.
RECURSIVE AlphabetDecode(_, _)
AlphabetDecode(s, p) ==
    IF p >= Len(s) THEN <<>>
    ELSE LET d == utf8_decode(s, p)
         IN (IF \E b \in 0..255 : byte_to_unicode[b] = d.cp
             THEN <<CHOOSE b \in 0..255 : byte_to_unicode[b] = d.cp>>
             ELSE Slice(s, p, p + d.len))
            \o AlphabetDecode(s, p + d.len)

C21_AsClaimed ==
    (pc \in {"decoded", "decoded_ids"} /\ dec_status = BBPE_OK) =>
        out_text.text =
            Flatten([k \in 1..Len(dec_input.ids) |->
                        AlphabetDecode(tok.id_to_token[dec_input.ids[k]], 0)])

(***************************************************************************)
(* C22.  bbpe_decode of a list in which some id, at whatever place, is     *)
(* negative, is not below the size of the id-indexed array or designates   *)
(* an empty slot returns BBPE_ERR_TOKEN_NOT_FOUND; it has not reached its  *)
(* allocation and has not written *out_text.                               *)
(***************************************************************************)
C22_MissingIdRejected ==
    (/\ pc \in {"decoded", "decoded_ids"}
     /\ ~dec_input.ids_null /\ dec_input.count > 0
     /\ \E k \in 1..Len(dec_input.ids) :
           \/ dec_input.ids[k] < 0
           \/ dec_input.ids[k] > tok.vocab_size - 1
           \/ tok.id_to_token[dec_input.ids[k]] = NullStr)
        => dec_status = BBPE_ERR_TOKEN_NOT_FOUND /\ ~out_text.written

\* A list of three ids was refused because of its last id alone: the
\* first pass had gone over two token strings before it.
C22_Witness ==
    /\ pc = "decoded_ids"
    /\ Len(dec_input.ids) = 3
    /\ \A k \in 1..2 :
          /\ dec_input.ids[k] \in 0..(tok.vocab_size - 1)
          /\ tok.id_to_token[dec_input.ids[k]] # NullStr
    /\ \/ dec_input.ids[3] < 0
       \/ dec_input.ids[3] > tok.vocab_size - 1
       \/ tok.id_to_token[dec_input.ids[3]] = NullStr
    /\ dec_status = BBPE_ERR_TOKEN_NOT_FOUND /\ ~out_text.written

(***************************************************************************)
(* C23.  After bbpe_init the id-indexed array and the merge-row array both *)
(* reach up to the largest id of the vocabulary and of added_tokens, with  *)
(* the rows past the vocabulary empty; an added_tokens entry is a special  *)
(* token (in the special map and in the id-indexed array) exactly when no  *)
(* vocabulary token and no earlier entry has its id, and every other entry *)
(* leaves the slot at its id as it was.                                    *)
(***************************************************************************)
\* The added_tokens of the document that bbpe_init walks.
AddedOf(doc) == IF doc.has_added THEN doc.added_tokens ELSE <<>>

\* The largest of the ids of the vocabulary and of added_tokens.
LargestId(doc) ==
    LET all == {MaxId(doc.vocab)} \cup {AddedOf(doc)[k].id : k \in 1..Len(AddedOf(doc))}
    IN CHOOSE m \in all : \A x \in all : x <= m

\* Some vocabulary token has the id.
VocabHolds(doc, id) == \E x \in 1..Len(doc.vocab) : doc.vocab[x].id = id

\* The slot at the id of entry k is empty when the walk comes to entry k.
SlotEmptyAt(doc, k) ==
    /\ ~VocabHolds(doc, AddedOf(doc)[k].id)
    /\ \A j \in 1..(k - 1) : AddedOf(doc)[j].id # AddedOf(doc)[k].id

\* The entries with an empty slot, in the order of the list.
RECURSIVE Registered(_, _)
Registered(doc, k) ==
    IF k > Len(AddedOf(doc)) THEN <<>>
    ELSE (IF SlotEmptyAt(doc, k)
          THEN <<[token |-> AddedOf(doc)[k].content, id |-> AddedOf(doc)[k].id]>>
          ELSE <<>>) \o Registered(doc, k + 1)

C23_AddedTokens ==
    (pc = "ready" /\ out_tokenizer) =>
        LET largest == LargestId(json)
            filled == FillIdToToken(json.vocab, MaxId(json.vocab) + 1)
            added == AddedOf(json)
        IN /\ tok.vocab_size = largest + 1
           /\ DOMAIN tok.id_to_token = 0..largest
           /\ Len(tok.rule_rows) = largest + 1
           /\ \A i \in (MaxId(json.vocab) + 1)..largest : tok.rule_rows[i + 1] = <<>>
           /\ tok.special_tokens_map = Registered(json, 1)
           /\ \A i \in 0..largest :
                 tok.id_to_token[i] =
                     IF VocabHolds(json, i)
                     THEN filled[i]
                     ELSE IF \E k \in 1..Len(added) : added[k].id = i
                     THEN added[CHOOSE k \in 1..Len(added) :
                                   /\ added[k].id = i
                                   /\ SlotEmptyAt(json, k)].content
                     ELSE NullStr

\* A list was walked that has an entry for an unused id inside the array,
\* one that makes the arrays grow and leaves an empty slot, a second entry
\* for the same id and an entry for an id of the vocabulary.
C23_Witness ==
    /\ pc = "ready" /\ out_tokenizer
    /\ \E k \in 1..Len(AddedOf(json)) :
          SlotEmptyAt(json, k) /\ AddedOf(json)[k].id < MaxId(json.vocab)
    /\ \E k \in 1..Len(AddedOf(json)) :
          SlotEmptyAt(json, k) /\ AddedOf(json)[k].id > MaxId(json.vocab) + 1
    /\ \E k \in 1..Len(AddedOf(json)) :
          ~VocabHolds(json, AddedOf(json)[k].id) /\ ~SlotEmptyAt(json, k)
    /\ \E k \in 1..Len(AddedOf(json)) : VocabHolds(json, AddedOf(json)[k].id)
    /\ tok.special_tokens_map = Registered(json, 1)
    /\ Len(tok.special_tokens_map) = 2
    /\ tok.id_to_token[tok.vocab_size - 2] = NullStr

(***************************************************************************)
(* C24.  As claimed: when some byte b of a chunk of the text has no entry  *)
(* for the string utf8(B(b)) in the vocabulary, bbpe_encode fails with     *)
(* BBPE_ERR_TOKEN_NOT_FOUND (or earlier, on an allocation) and returns no  *)
(* ids.                                                                    *)
(***************************************************************************)
\* The chunks bbpe_encode hands to encode_chunk for a text, in order.
TextChunks(t, txt) ==
    LET segs == extract_special_tokens(t, txt)
    IN Flatten([k \in 1..Len(segs) |->
                   IF segs[k].is_special = 1 THEN <<>>
                   ELSE pre_tokenize(t, segs[k].text)])

\* The bytes of the chunks of a text.
ChunkBytes(t, txt) ==
    LET chunks == TextChunks(t, txt)
    IN UNION {{chunks[c][k] : k \in 1..Len(chunks[c])} : c \in 1..Len(chunks)}

\* The vocabulary has no entry for the precomputed string of byte b.
NoMappedEntry(t, b) == HashFind(t.vocab_map, byte_vocab_strs[b]) = 0

\* The vocabulary has no entry for the one-byte string of byte b.
NoRawEntry(t, b) == HashFind(t.vocab_map, <<b>>) = 0

C24_AsClaimed ==
    (pc = "encoded" /\ \E b \in ChunkBytes(tok, text) : NoMappedEntry(tok, b))
        => /\ enc_status \in {BBPE_ERR_TOKEN_NOT_FOUND, BBPE_ERR_MEMORY}
           /\ out_output = EmptyOutput

(***************************************************************************)
(* C24, amended.  bbpe_encode fails so when the vocabulary has neither an  *)
(* entry for utf8(B(b)) nor one for the one-byte string of b, for some     *)
(* byte b of a chunk, and it returns BBPE_ERR_TOKEN_NOT_FOUND in that case *)
(* only; a byte with the one-byte entry alone is given that entry's id.    *)
(***************************************************************************)
C24_ByteWithoutToken ==
    pc = "encoded" =>
        LET chunks == TextChunks(tok, text)
            bytes == ChunkBytes(tok, text)
        IN /\ (\E b \in bytes : NoMappedEntry(tok, b) /\ NoRawEntry(tok, b))
                 => /\ enc_status \in {BBPE_ERR_TOKEN_NOT_FOUND, BBPE_ERR_MEMORY}
                    /\ out_output = EmptyOutput
           /\ enc_status = BBPE_ERR_TOKEN_NOT_FOUND
                 => \E b \in bytes : NoMappedEntry(tok, b) /\ NoRawEntry(tok, b)
           /\ (/\ enc_status = BBPE_OK
               /\ NoSpecialIn(tok, text)
               /\ Len(chunks) = 1
               /\ Len(chunks[1]) = 1)
                 => LET b == chunks[1][1]
                    IN out_output.ids =
                          <<tok.vocab_map[IF NoMappedEntry(tok, b)
                                          THEN HashFind(tok.vocab_map, <<b>>)
                                          ELSE HashFind(tok.vocab_map, byte_vocab_strs[b])].id>>

\* bbpe_encode failed on a byte that has neither entry, in a text whose
\* byte before it has the one-byte entry only.
C24_Witness ==
    /\ pc = "encoded"
    /\ enc_status = BBPE_ERR_TOKEN_NOT_FOUND /\ out_output = EmptyOutput
    /\ Len(text) = 2
    /\ NoMappedEntry(tok, text[1]) /\ ~NoRawEntry(tok, text[1])
    /\ NoMappedEntry(tok, text[2]) /\ NoRawEntry(tok, text[2])

(***************************************************************************)
(* C25.  The chunks of a segment are what the nodes of the JSON, taken in  *)
(* the order of the JSON and starting from the one chunk [text], give when *)
(* each node is applied to every chunk of the stage before it and the      *)
(* outputs are put together in order; a ByteLevel node gives one chunk for *)
(* each chunk it receives, the chunk itself or a space and then the chunk. *)
(***************************************************************************)
\* The chunks after the first n nodes of the document's chain; out is what
\* node n makes of one chunk.
RECURSIVE Stage(_, _, _)
Stage(doc, n, txt) ==
    IF n = 0 THEN <<txt>>
    ELSE LET before == Stage(doc, n - 1, txt)
             obj == NodeObjects(doc.pre_tokenizer)[n]
             out(c) ==
                 IF obj.type = "ByteLevel"
                 THEN <<(IF obj.add_prefix_space THEN <<32>> ELSE <<>>) \o c>>
                 ELSE apply_single_pre_tokenizer(
                          [type |-> "REGEX_SPLIT", regex_pattern |-> obj.regex], c)
         IN Flatten([k \in 1..Len(before) |-> out(before[k])])

C25_ChainInOrder ==
    pc \in {"chunk", "merge"} =>
        LET nodes == NodeObjects(json.pre_tokenizer)
            txt == segments[seg_i + 1].text
        IN /\ pre_res = Stage(json, Len(nodes), txt)
           /\ \A n \in 1..Len(nodes) :
                 nodes[n].type = "ByteLevel" =>
                     /\ Len(Stage(json, n, txt)) = Len(Stage(json, n - 1, txt))
                     /\ \A k \in 1..Len(Stage(json, n, txt)) :
                           Stage(json, n, txt)[k] =
                               IF nodes[n].add_prefix_space
                               THEN <<32>> \o Stage(json, n - 1, txt)[k]
                               ELSE Stage(json, n - 1, txt)[k]

\* A split gave three chunks and the ByteLevel node after it put a space
\* before each of them.
C25_Witness ==
    /\ pc = "chunk"
    /\ Len(NodeObjects(json.pre_tokenizer)) = 2
    /\ NodeObjects(json.pre_tokenizer)[2].type = "ByteLevel"
    /\ NodeObjects(json.pre_tokenizer)[2].add_prefix_space
    /\ Len(Stage(json, 1, segments[seg_i + 1].text)) = 3
    /\ Len(pre_res) = 3
    /\ \A k \in 1..3 : pre_res[k] = <<32>> \o Stage(json, 1, segments[seg_i + 1].text)[k]

(***************************************************************************)
(* C26.  The matching loop of a Split node ends on every chunk: from one   *)
(* pass to the next the offset grows, by one byte past an empty match, and *)
(* the loop is left when the offset has reached the end of the chunk or    *)
(* the engine returns no match.                                            *)
(***************************************************************************)
\* The offsets at the head of the loop, pass by pass, for at most `passes`
\* passes that find a match; the last one is the offset the trace stops at.
RECURSIVE MatchOffsets(_, _, _, _)
MatchOffsets(pattern, c, offset, passes) ==
    IF passes = 0 \/ offset >= Len(c) \/ pcre2_match(pattern, c, offset).rc < 0
    THEN <<offset>>
    ELSE <<offset>> \o MatchOffsets(pattern, c,
                           NextOffset(pcre2_match(pattern, c, offset)), passes - 1)

C26_MatchLoopEnds ==
    pc \in {"chunk", "merge"} =>
        \A n \in 1..Len(tok.pre_tokenizers) :
            tok.pre_tokenizers[n].type = "REGEX_SPLIT" =>
                \A k \in 1..Len(NodeInputs(tok, n, segments[seg_i + 1].text)) :
                    LET pattern == tok.pre_tokenizers[n].regex_pattern
                        c == NodeInputs(tok, n, segments[seg_i + 1].text)[k]
                        tr == MatchOffsets(pattern, c, 0, Len(c) + 1)
                        last == tr[Len(tr)]
                    IN /\ \A x \in 1..(Len(tr) - 1) :
                             /\ tr[x] < tr[x + 1]
                             /\ LET m == pcre2_match(pattern, c, tr[x])
                                IN tr[x + 1] = IF m.start = m.end THEN m.end + 1 ELSE m.end
                       /\ last >= Len(c) \/ pcre2_match(pattern, c, last).rc < 0
                       /\ Len(tr) <= Len(c) + 1
                       /\ Len(RegexSplitLoop(pattern, c, 0, 0, <<>>)) >= Len(tr) - 1

\* The loop met an empty match, went one byte on, met a match that is not
\* empty and ended at the end of the chunk.
C26_Witness ==
    /\ pc = "chunk"
    /\ \E n \in 1..Len(tok.pre_tokenizers) :
          /\ tok.pre_tokenizers[n].type = "REGEX_SPLIT"
          /\ LET c == NodeInputs(tok, n, segments[seg_i + 1].text)[1]
                 pattern == tok.pre_tokenizers[n].regex_pattern
                 tr == MatchOffsets(pattern, c, 0, Len(c) + 1)
             IN /\ Len(c) = 3
                /\ tr = <<0, 1, 3>>
                /\ pcre2_match(pattern, c, 0).start = pcre2_match(pattern, c, 0).end
                /\ Len(RegexSplitLoop(pattern, c, 0, 0, <<>>)) >= 2

(***************************************************************************)
(* C27.  The merge loop of encode_chunk ends on every chunk of n > 0       *)
(* bytes: it starts with n ids, every pass that merges leaves one id less  *)
(* and one id at least, so that n - 1 passes at most are made, and the     *)
(* chunk adds between 1 and n ids to the output.                           *)
(***************************************************************************)
C27_MergeLoopEnds ==
    /\ [](pc = "merge" =>
             /\ Len(pre_res[chunk_j + 1]) > 0
             /\ Len(ids) >= 1
             /\ Len(pre_res[chunk_j + 1]) - Len(ids) \in 0..(Len(pre_res[chunk_j + 1]) - 1))
    /\ [][/\ (pc = "chunk" /\ pc' = "merge") => Len(ids') = Len(pre_res[chunk_j + 1])
          /\ (pc = "merge" /\ pc' = "merge") => Len(ids') = Len(ids) - 1
          /\ (pc = "merge" /\ pc' = "chunk") =>
                Len(out_output'.ids) - Len(out_output.ids)
                    \in 1..Len(pre_res[chunk_j + 1])]_vars
    /\ (pc = "merge") ~> (pc # "merge")

\* A chunk of three bytes was merged in two passes into one id.
C27_Witness ==
    /\ pc = "merge"
    /\ Len(pre_res[chunk_j + 1]) = 3
    /\ Len(pre_res[chunk_j + 1]) = 3 /\ Len(ids) = 1
    /\ Len(merge_from) = 2

(***************************************************************************)
(* C28, as claimed.  Every id that a successful bbpe_encode has put into   *)
(* its output, from the expansion of a byte, from a merge or for a special *)
(* token, lies within the id-indexed array of the handle and designates a  *)
(* slot that holds a string: bbpe_decode of the output does not return     *)
(* BBPE_ERR_TOKEN_NOT_FOUND.  A vocabulary entry with a negative id is     *)
(* loaded, expanded to by its byte, and refused by bbpe_decode.            *)
(***************************************************************************)
\* bbpe_decode finds a token string for the id.
Decodable(t, id) == id \in 0..(t.vocab_size - 1) /\ t.id_to_token[id] # NullStr

C28_AsClaimed ==
    /\ (pc \in {"encoded", "decoded"} /\ enc_status = BBPE_OK) =>
          \A k \in 1..Len(out_output.ids) : Decodable(tok, out_output.ids[k])
    /\ pc = "decoded" => dec_status # BBPE_ERR_TOKEN_NOT_FOUND

(***************************************************************************)
(* C28, amended.  The same for a handle loaded from a vocabulary none of   *)
(* whose ids is negative; the ids in the output and in the working array   *)
(* of encode_chunk are decodable all along the call.                       *)
(***************************************************************************)
C28_OutputDecodable ==
    (\A x \in 1..Len(json.vocab) : json.vocab[x].id >= 0) =>
        /\ pc \in {"segment", "chunk", "merge"} =>
              \A k \in 1..Len(out_output.ids) : Decodable(tok, out_output.ids[k])
        /\ pc = "merge" => \A k \in 1..Len(ids) : Decodable(tok, ids[k])
        /\ (pc \in {"encoded", "decoded"} /\ enc_status = BBPE_OK) =>
              \A k \in 1..Len(out_output.ids) : Decodable(tok, out_output.ids[k])
        /\ pc = "decoded" => dec_status # BBPE_ERR_TOKEN_NOT_FOUND

\* An output with the id of a byte, the id of a merge and the id of a
\* special token beyond the vocabulary was decoded.
C28_Witness ==
    /\ pc = "decoded"
    /\ \A x \in 1..Len(json.vocab) : json.vocab[x].id >= 0
    /\ dec_status = BBPE_OK
    /\ \E k \in 1..Len(dec_input.ids) : dec_input.ids[k] > MaxId(json.vocab)
    /\ \E k \in 1..Len(dec_input.ids) :
          \E x \in 1..Len(tok.rule_rows), y \in 1..3 :
              /\ y <= Len(tok.rule_rows[x])
              /\ tok.rule_rows[x][y].new_id = dec_input.ids[k]
    /\ \E k \in 1..Len(dec_input.ids) :
          \E b \in {60, 97, 98} : tok.id_to_token[dec_input.ids[k]] = <<b>>

(***************************************************************************)
(* C29.  The scan for special tokens is leftmost-first.  When a special    *)
(* token matches at the first offset of the text at which any matches and  *)
(* is the longest matching there, it is emitted, also when a longer        *)
(* special token matches at a later offset inside it: the text before it   *)
(* is one normal segment, the scan resumes right after it, so the segments *)
(* that follow are those of the rest of the text taken alone, and the tail *)
(* of the later token, when no special token matches in it, is the head of *)
(* a normal segment.  The output is the ids of the text before, the id of  *)
(* the token and the ids of the rest.                                      *)
(***************************************************************************)
\* Entry j matches at offset q, inside the match of entry k at offset p, and
\* is longer than entry k.
LongerInside(t, txt, p, k, q, j) ==
    /\ k \in SpecialsAt(t, txt, p)
    /\ q \in (p + 1)..(p + Len(t.special_tokens_map[k].token) - 1)
    /\ j \in SpecialsAt(t, txt, q)
    /\ Len(t.special_tokens_map[j].token) > Len(t.special_tokens_map[k].token)

C29_LeftmostFirst ==
    \A p \in 0..(Len(text) - 1) :
        \A k \in SpecialsAt(tok, text, p) :
            (/\ \A q \in 0..(p - 1) : SpecialsAt(tok, text, q) = {}
             /\ LongestAt(tok, text, p, k)
             /\ \E q \in 0..(Len(text) - 1) :
                   \E j \in SpecialsAt(tok, text, q) : LongerInside(tok, text, p, k, q, j))
            => LET end == p + Len(tok.special_tokens_map[k].token)
                   s == IF p = 0 THEN 2 ELSE 3
               IN /\ pc \in {"segment", "chunk", "merge"} =>
                        /\ segments
                             = NormalSegment(text, 0, p)
                                 \o <<[is_special |-> 1, text |-> NullStr,
                                       special_id |-> tok.special_tokens_map[k].id]>>
                                 \o extract_special_tokens(tok, Slice(text, end, Len(text)))
                        /\ \A q \in 0..(Len(text) - 1) :
                              \A j \in SpecialsAt(tok, text, q) :
                                  (/\ LongerInside(tok, text, p, k, q, j)
                                   /\ NoSpecialIn(tok, Slice(text, end, Len(text))))
                                  => LET tail == Slice(text, end,
                                                     q + Len(tok.special_tokens_map[j].token))
                                     IN /\ s <= Len(segments)
                                        /\ segments[s].is_special = 0
                                        /\ Len(segments[s].text) >= Len(tail)
                                        /\ SubSeq(segments[s].text, 1, Len(tail)) = tail
                  /\ (pc = "encoded" /\ enc_status = BBPE_OK) =>
                        SplitsAt(tok, text, p, k, out_output.ids)

\* "<a<b" with the special tokens "<a" and "a<b" was encoded: the id of "<a",
\* then "<b" as ordinary text.
C29_Witness ==
    /\ pc = "encoded" /\ enc_status = BBPE_OK
    /\ \E k, j \in 1..Len(tok.special_tokens_map) :
          /\ LongestAt(tok, text, 0, k)
          /\ LongerInside(tok, text, 0, k, 1, j)
          /\ out_output.ids
               = <<tok.special_tokens_map[k].id>>
                   \o EncodeIds(tok, Slice(text, Len(tok.special_tokens_map[k].token), Len(text)))
          /\ \A x \in 1..Len(out_output.ids) :
                out_output.ids[x] # tok.special_tokens_map[j].id
          /\ Len(out_output.ids) > 1

(***************************************************************************)
(* C30.  A merges element in string form of more than 255 bytes, or in     *)
(* array form whose two strings have more than 255 bytes together, leaves  *)
(* no item in the merge table, also when its left string, its right string *)
(* and their concatenation are tokens of the vocabulary: the table has one *)
(* item for each of the other elements whose strings are tokens, none for  *)
(* the pair of the long element, and bbpe_init returns BBPE_OK with a      *)
(* handle.                                                                 *)
(***************************************************************************)
\* The two strings a merges element names, whatever their length.
RawParts(m) ==
    IF m.kind = "string"
    THEN [l |-> Slice(m.s, 0, FirstSpace(m.s)),
          r |-> Slice(m.s, FirstSpace(m.s) + 1, Len(m.s))]
    ELSE [l |-> m.l, r |-> m.r]

\* Element k of the merges is skipped for its length alone: it is too long
\* and its two strings and their concatenation are tokens of the vocabulary.
TooLong(doc, k) ==
    LET m == doc.merges[k]
    IN /\ \/ m.kind = "string" /\ Len(m.s) > STRING_TEMP_SIZE /\ FirstSpace(m.s) # -1
          \/ m.kind = "array" /\ Len(m.l) + Len(m.r) > STRING_TEMP_SIZE
       /\ HashFind(doc.vocab, RawParts(m).l) # 0
       /\ HashFind(doc.vocab, RawParts(m).r) # 0
       /\ HashFind(doc.vocab, RawParts(m).l \o RawParts(m).r) # 0

C30_LongRuleSkipped ==
    (/\ pc = "ready"
     /\ alloc_failed = "none"
     /\ json.parse_ok /\ json.has_vocab /\ json.has_merges
     /\ \E k \in 1..Len(json.merges) : TooLong(json, k))
        => /\ init_status \in {o.status : o \in InitOutcomes(json)}
           /\ \A k \in 1..Len(json.merges) :
                 TooLong(json, k) =>
                     init_status \in {o.status : o \in InitOutcomes(WithoutRule(json, k))}
           /\ init_status = BBPE_OK =>
                 /\ out_tokenizer
                 /\ TableSize(tok.rule_rows)
                       = Cardinality({j \in 1..Len(json.merges) : Survives(json, j)})
                 /\ \A k \in 1..Len(json.merges) :
                       (/\ TooLong(json, k)
                        /\ \A j \in 1..Len(json.merges) :
                              RawParts(json.merges[j]) = RawParts(json.merges[k])
                                  => TooLong(json, j))
                       => RulesFor(tok, VocabId(json, RawParts(json.merges[k]).l),
                                   VocabId(json, RawParts(json.merges[k]).r)) = {}
                 /\ \A k \in 1..Len(json.merges) :
                       Survives(json, k) =>
                           RulesFor(tok, VocabId(json, RawParts(json.merges[k]).l),
                                    VocabId(json, RawParts(json.merges[k]).r)) # {}

\* bbpe_init returned a handle for merges with a string-form element of 256
\* bytes and an array-form element of 256 bytes: the table has neither, and
\* it has the array-form element of 255 bytes and the string-form element
\* of 255 bytes.
C30_Witness ==
    /\ pc = "ready" /\ init_status = BBPE_OK /\ out_tokenizer
    /\ json.has_merges
    /\ \E k \in 1..Len(json.merges) :
          /\ TooLong(json, k) /\ json.merges[k].kind = "string"
          /\ Len(json.merges[k].s) = STRING_TEMP_SIZE + 1
          /\ RulesFor(tok, VocabId(json, RawParts(json.merges[k]).l),
                      VocabId(json, RawParts(json.merges[k]).r)) = {}
    /\ \E k \in 1..Len(json.merges) :
          /\ TooLong(json, k) /\ json.merges[k].kind = "array"
          /\ RulesFor(tok, VocabId(json, RawParts(json.merges[k]).l),
                      VocabId(json, RawParts(json.merges[k]).r)) = {}
    /\ \E k \in 1..Len(json.merges) :
          /\ Survives(json, k) /\ json.merges[k].kind = "array"
          /\ Len(json.merges[k].l) + Len(json.merges[k].r) = STRING_TEMP_SIZE
    /\ \E k \in 1..Len(json.merges) :
          /\ Survives(json, k) /\ json.merges[k].kind = "string"
          /\ Len(json.merges[k].s) = STRING_TEMP_SIZE
    /\ TableSize(tok.rule_rows) = 3

====
